---------------------------- MODULE Spec2Model ----------------------------
(***************************************************************************)
(* Memory consolidation engine of FastLearn (src/agents/memory,            *)
(* src/services/memory): the summary trigger policy, the summary           *)
(* extractor, the summary upsert, the profile consolidation and the ORM    *)
(* unit of work they run in.                                               *)
(*                                                                         *)
(* Conventions.  A Python dict is a function whose DOMAIN is the set of    *)
(* keys present; a nullable value is None (<<>>) or Some(v) (<<v>>); a     *)
(* timestamp is a natural number read off the logical clock `now`; a       *)
(* table is a set of rows.                                                 *)
(***************************************************************************)
EXTENDS Integers, Sequences, FiniteSets, TLC

VARIABLES
    cfg,           \* SummaryConfig: trigger_rounds, trigger_tokens, keep_recent
    t_msgs,        \* trigger policy: the messages of the last call
    t_force,       \* trigger policy: the force flag of the last call
    t_ret,         \* trigger policy: <<>> before any call, <<result>> after
    wp_list,       \* weak-point merge: profile.weak_points of one loaded profile
    wp_calls,      \* weak-point merge: number of update_weak_points calls made
    db_summaries,  \* committed rows of table session_summaries
    db_profiles,   \* committed rows of table user_profiles
    seq,           \* the autoincrement sequences of both tables
    now,           \* logical clock behind datetime.utcnow()
    tx,            \* the running SummarizerAgent.process call and its ORM session
    ret,           \* outcome of the last finished SummarizerAgent.process call
    unit,          \* profile operations on their own: the ORM session they run in
    op,            \* the last call made (its arguments, what it read, its result)
    conc           \* concurrent consolidations: the ORM session of each worker

vars == <<cfg, t_msgs, t_force, t_ret, wp_list, wp_calls,
          db_summaries, db_profiles, seq, now, tx, ret, unit, op, conc>>

(***************************************************************************)
(* Bounds of the model.                                                    *)
(***************************************************************************)
MaxTurns  == 6     \* longest conversation handed to the trigger policy
MaxBatch  == 2     \* longest weak-point batch handed to update_weak_points
MaxCalls  == 2     \* update_weak_points calls in one behaviour
MaxEvents == 2     \* SummarizerAgent.process calls in one behaviour
MaxKGCalls == 3    \* update_knowledge_graph calls in one behaviour
MaxStatCalls == 5  \* increment_profile_statistics calls in one behaviour
MaxAgentCalls == 2 \* agent calls (consolidate, infer, update, retrieve) in one behaviour
MaxClock == 2      \* latest reading of the clock in the agents' behaviours
MaxProfileCalls == 2 \* forced consolidations of unusual summaries in one behaviour
MaxExtractTurns == 3 \* longest conversation handed to _generate_summary on its own

(***************************************************************************)
(* Generic helpers.                                                        *)
(***************************************************************************)
None == <<>>
Some(v) == <<v>>

Min(a, b) == IF a < b THEN a ELSE b
Max(a, b) == IF a > b THEN a ELSE b

Has(d, k) == k \in DOMAIN d
Get(d, k, default) == IF k \in DOMAIN d THEN d[k] ELSE default
\* d[k] = v on a dict: the key is added when absent
SetKey(d, k, v) == [x \in DOMAIN d \cup {k} |-> IF x = k THEN v ELSE d[x]]
\* dict.update(delta)
DictUpdate(d, delta) ==
    [x \in DOMAIN d \cup DOMAIN delta |-> IF x \in DOMAIN delta THEN delta[x] ELSE d[x]]
\* a or b, for nullable values
OrElse(a, b) == IF a # None THEN a ELSE b

SeqsUpTo(S, n) == UNION {[1..k -> S] : k \in 0..n}

(***************************************************************************)
(* Configuration (SummaryConfig).  The fields are read from the            *)
(* environment; the shipped defaults are 10 rounds, 4000 tokens and 5      *)
(* kept messages, the deployment in chat.py runs with 3 rounds.  Content   *)
(* lengths of the model are a few characters, so the token thresholds are  *)
(* of that size.                                                           *)
(***************************************************************************)
TriggerRoundsChoices == {1, 3}
TriggerTokensChoices == {3, 5}
KeepRecentChoices == {2}

Configs ==
    [trigger_rounds : TriggerRoundsChoices,
     trigger_tokens : TriggerTokensChoices,
     keep_recent : KeepRecentChoices]

(***************************************************************************)
(* Messages: dicts with a role and, usually, a content.                    *)
(***************************************************************************)
Contents == {"", "abc"}
Messages ==
    [role : {"user"}, content : Contents] \cup [role : {"user"}]

RECURSIVE total_chars(_)
\* sum(len(m.get("content", "")) for m in messages)
total_chars(messages) ==
    IF messages = <<>> THEN 0
    ELSE Len(Get(Head(messages), "content", "")) + total_chars(Tail(messages))

(***************************************************************************)
(* SummarizerAgent._should_trigger_summary                                 *)
(***************************************************************************)
should_trigger_summary_gt(messages, force, c) ==
    \/ force
    \/ Len(messages) > c.trigger_rounds * 2
    \/ (total_chars(messages) \div 2) >= c.trigger_tokens

should_trigger_summary(messages, force, c) ==
    \/ force
    \/ Len(messages) >= c.trigger_rounds * 2
    \/ (total_chars(messages) \div 2) >= c.trigger_tokens

(***************************************************************************)
(* crud.update_weak_points, on the in-memory list profile.weak_points.     *)
(***************************************************************************)
\* x.get("confusion_score", 0)
Score(e) == Get(e, "confusion_score", 0)

RECURSIVE InsertDesc(_, _)
InsertDesc(s, e) ==
    IF s = <<>> THEN <<e>>
    ELSE IF Score(Head(s)) >= Score(e)
         THEN <<Head(s)>> \o InsertDesc(Tail(s), e)
         ELSE <<e>> \o s

RECURSIVE SortDesc(_)
\* list.sort(key=confusion_score, reverse=True): stable
SortDesc(s) ==
    IF s = <<>> THEN <<>>
    ELSE InsertDesc(SortDesc(SubSeq(s, 1, Len(s) - 1)), s[Len(s)])

\* {wp["concept"]: wp for wp in profile.weak_points}: the entry a concept
\* maps to is the last one of the list that carries it (by position).
ExistingIndex(list) ==
    [c \in {list[i].concept : i \in DOMAIN list} |->
        CHOOSE i \in DOMAIN list :
            /\ list[i].concept = c
            /\ \A j \in DOMAIN list : list[j].concept = c => j <= i]

\* an iteration that takes the score of every observation of a known concept
MergeOne_overwrite(list, existing, new_wp, clock) ==
    IF new_wp.concept \in DOMAIN existing
    THEN LET i == existing[new_wp.concept]
         IN  [list EXCEPT ![i] =
                 SetKey(SetKey(@, "confusion_score", new_wp.confusion_score),
                        "last_confused", Get(new_wp, "last_confused", Some(clock)))]
    ELSE Append(list, new_wp)

\* one iteration of the for loop over weak_points_list
MergeOne(list, existing, new_wp, clock) ==
    IF new_wp.concept \in DOMAIN existing
    THEN LET i == existing[new_wp.concept]
         IN  IF Score(new_wp) > Score(list[i])
             THEN [list EXCEPT ![i] =
                      SetKey(SetKey(@, "confusion_score", new_wp.confusion_score),
                             "last_confused", Get(new_wp, "last_confused", Some(clock)))]
             ELSE list
    ELSE Append(list, new_wp)

RECURSIVE MergeLoop(_, _, _, _)
MergeLoop(list, existing, batch, clock) ==
    IF batch = <<>> THEN list
    ELSE MergeLoop(MergeOne(list, existing, Head(batch), clock), existing, Tail(batch), clock)

update_weak_points_list(list, batch, clock) ==
    SortDesc(MergeLoop(list, ExistingIndex(list), batch, clock))

(***************************************************************************)
(* Conversations handed to SummarizerAgent.process.                        *)
(***************************************************************************)
Users == {"u1", "u2"}
Sessions == {"s1", "s2"}
ConvLens == {0, 2, 6}
Conv(n) == [i \in 1..n |-> [role |-> "user", content |-> "ab"]]
Conversations == {Conv(n) : n \in ConvLens}

(***************************************************************************)
(* Outcomes of the summarization call (BaseAgent.call_llm followed by      *)
(* json.loads).  A key point is the list of its whitespace-delimited       *)
(* words (the value of point.split()).                                     *)
(***************************************************************************)
KP1 == <<"gradient", "descent">>
KP2 == <<"sgd", "uses", "one", "sample", "per", "update">>

ObjFull1 ==
    [core_topic |-> "ct1",
     key_points |-> <<KP1>>,
     resolved_questions |-> <<"q1">>,
     unresolved_questions |-> <<>>,
     user_preferences |-> [learning_style |-> "visual"],
     weak_points |-> <<[concept |-> "c1", confusion_score |-> 50]>>,
     subject |-> Some("math"),
     topic |-> Some("algebra"),
     difficulty |-> Some("beginner")]

ObjFull2 ==
    [core_topic |-> "ct2",
     key_points |-> <<KP1, KP2>>,
     resolved_questions |-> <<>>,
     unresolved_questions |-> <<>>,
     user_preferences |-> [difficulty_preference |-> "advanced"],
     weak_points |-> <<[concept |-> "c2", confusion_score |-> 30],
                       [concept |-> "c1", confusion_score |-> 70]>>,
     subject |-> None,
     topic |-> None,
     difficulty |-> None]

\* a JSON object with only the two fields SessionSummaryCreate requires
ObjPartial == [core_topic |-> "ct3", key_points |-> <<KP1>>]

\* the JSON object {}
ObjEmpty == <<>>

LLMObjects == {ObjFull1, ObjFull2, ObjPartial, ObjEmpty}

\* kind: "raise" (the call fails), "text" (not JSON), "json_other" (valid JSON
\* that is no object: a list, null, a number), "json_object" (obj is the dict)
LLMOutcomes ==
    {[kind |-> k, obj |-> <<>>] : k \in {"raise", "text", "json_other"}}
    \cup {[kind |-> "json_object", obj |-> o] : o \in LLMObjects}

SummaryCoreFields ==
    {"core_topic", "key_points", "resolved_questions", "unresolved_questions", "weak_points"}

(***************************************************************************)
(* SummarizerAgent._get_default_summary and _generate_summary              *)
(***************************************************************************)
\* messages[-k:] if len(messages) > k else messages
Tail_k(messages, k) ==
    IF Len(messages) > k
    THEN IF k = 0 THEN messages
         ELSE SubSeq(messages, Len(messages) - k + 1, Len(messages))
    ELSE messages

DefaultTopic == "learning conversation"

get_default_summary(messages) ==
    [core_topic |-> DefaultTopic,
     key_points |-> << <<"discussed-related-concepts">>, <<"answered-some-questions">> >>,
     resolved_questions |-> <<>>,
     unresolved_questions |-> <<>>,
     user_preferences |->
        [learning_style |-> "textual", difficulty_preference |-> "intermediate",
         include_code |-> TRUE, include_math |-> TRUE],
     weak_points |-> <<>>,
     subject |-> None,
     topic |-> None,
     difficulty |-> None,
     recent_messages |-> Tail_k(messages, 5),
     message_count |-> Len(messages),
     token_count |-> 0]

\* The value of _generate_summary: ok with the summary dict, or the exception
\* that leaves it.
generate_summary(messages, llm, c) ==
    CASE llm.kind = "raise" ->
            [ok |-> FALSE, error |-> "LLMError", summary |-> <<>>]
      [] llm.kind = "text" ->
            [ok |-> TRUE, error |-> "", summary |-> get_default_summary(messages)]
      [] llm.kind = "json_other" ->
            [ok |-> FALSE, error |-> "TypeError", summary |-> <<>>]
      [] OTHER ->
            [ok |-> TRUE, error |-> "",
             summary |-> SetKey(SetKey(llm.obj, "recent_messages",
                                       Tail_k(messages, c.keep_recent)),
                                "message_count", Len(messages))]

(***************************************************************************)
(* The ORM unit of work.  u.summaries and u.profiles are the rows as the   *)
(* open transaction sees them (flushed, not yet committed); u.mem is the   *)
(* UserProfile object of the session's identity map, None until loaded.    *)
(* The JSON columns are plain Column(JSON): an attribute assignment is     *)
(* flushed to the row, a mutation in place of the dict or list held by the *)
(* attribute changes the object only.  u.err names the exception raised.   *)
(***************************************************************************)
DefaultPreferences ==
    [learning_style |-> "textual", difficulty_preference |-> "intermediate",
     language |-> "zh-CN", include_code |-> TRUE, include_math |-> TRUE,
     response_format |-> "html"]

DefaultStatistics ==
    [total_sessions |-> 0, total_questions |-> 0, active_days |-> 0,
     avg_session_length |-> 0, most_active_hour |-> None, last_active_date |-> None]

Raise(u, e) == [u EXCEPT !.err = e]

ProfileRow(rows, user_id) == CHOOSE r \in rows : r.user_id = user_id
HasProfile(rows, user_id) == \E r \in rows : r.user_id = user_id

\* crud.get_user_profile: the object of the identity map, loaded on first use
get_user_profile(u, user_id) ==
    IF u.mem # None \/ ~HasProfile(u.profiles, user_id) THEN u
    ELSE [u EXCEPT !.mem = Some(ProfileRow(u.profiles, user_id))]

\* crud.create_user_profile: session.add and flush, an INSERT of the defaults
create_user_profile(u, user_id, clock) ==
    LET row == [id |-> u.seq.profile + 1,
                user_id |-> user_id,
                preferences |-> DefaultPreferences,
                statistics |-> DefaultStatistics,
                knowledge_graph |-> <<>>,
                interests |-> <<>>,
                weak_points |-> <<>>,
                created_at |-> clock,
                updated_at |-> clock]
    IN  [u EXCEPT !.profiles = @ \cup {row},
                  !.mem = Some(row),
                  !.seq.profile = @ + 1]

\* profile = get_user_profile(...); if profile is None: profile = create_user_profile(...)
get_or_create(u, user_id, clock) ==
    LET v == get_user_profile(u, user_id)
    IN  IF v.mem = None THEN create_user_profile(v, user_id, clock) ELSE v

\* a mutation in place of the value of a JSON attribute: not flushed
MutateInPlace(u, field, val) ==
    [u EXCEPT !.mem = Some([@[1] EXCEPT ![field] = val])]

\* profile.<field> = val: flushed as an UPDATE of that column
AssignAttr(u, field, val) ==
    LET old == CHOOSE r \in u.profiles : r.id = u.mem[1].id
    IN  [u EXCEPT !.mem = Some([@[1] EXCEPT ![field] = val]),
                  !.profiles = (@ \ {old}) \cup {[old EXCEPT ![field] = val]}]

(***************************************************************************)
(* crud: profile operations                                                *)
(***************************************************************************)
update_profile_preferences(u, user_id, preferences_delta, clock) ==
    LET v == get_or_create(u, user_id, clock)
        w == MutateInPlace(v, "preferences",
                           DictUpdate(v.mem[1].preferences, preferences_delta))
    IN  AssignAttr(w, "updated_at", clock)

update_weak_points(u, user_id, weak_points_list, clock) ==
    LET v == get_or_create(u, user_id, clock)
    IN  IF \E i \in DOMAIN weak_points_list : ~Has(weak_points_list[i], "concept")
        THEN Raise(v, "KeyError")
        ELSE AssignAttr(
                MutateInPlace(v, "weak_points",
                    update_weak_points_list(v.mem[1].weak_points, weak_points_list, clock)),
                "updated_at", clock)

\* round(num / den, 2) on a value held in hundredths: nearest, ties to even
RoundDiv(num, den) ==
    LET q == num \div den
        r == num % den
    IN  IF 2 * r < den THEN q
        ELSE IF 2 * r > den THEN q + 1
        ELSE IF q % 2 = 0 THEN q ELSE q + 1

increment_profile_statistics_biased(u, user_id, increment_sessions, increment_questions, increment_active_days, session_length, clock) ==
    LET v == get_or_create(u, user_id, clock)
        st == v.mem[1].statistics
        count == IF increment_sessions THEN st.total_sessions + 1 ELSE st.total_sessions
        new_avg ==
            IF session_length = None THEN st.avg_session_length
            ELSE RoundDiv(st.avg_session_length * count + 100 * session_length[1], count + 1)
        statistics ==
            [st EXCEPT
                !.total_sessions = count,
                !.total_questions = IF increment_questions THEN @ + 1 ELSE @,
                !.active_days = IF increment_active_days THEN @ + 1 ELSE @,
                !.avg_session_length = new_avg,
                !.last_active_date = Some(clock)]
    IN  AssignAttr(AssignAttr(v, "statistics", statistics), "updated_at", clock)

\* avg_session_length is held in hundredths (the code rounds it to 2 decimals)
increment_profile_statistics(u, user_id, increment_sessions, increment_questions, increment_active_days, session_length, clock) ==
    LET v == get_or_create(u, user_id, clock)
        st == v.mem[1].statistics
        old_total_sessions == st.total_sessions
        new_total_sessions == old_total_sessions + 1
        new_avg ==
            IF session_length = None THEN st.avg_session_length
            ELSE IF new_total_sessions > 1
                 THEN RoundDiv(st.avg_session_length * old_total_sessions
                                  + 100 * session_length[1], new_total_sessions)
                 ELSE 100 * session_length[1]
        statistics ==
            [st EXCEPT
                !.total_sessions = IF increment_sessions THEN old_total_sessions + 1 ELSE @,
                !.total_questions = IF increment_questions THEN @ + 1 ELSE @,
                !.active_days = IF increment_active_days THEN @ + 1 ELSE @,
                !.avg_session_length = new_avg,
                !.last_active_date = Some(clock)]
    IN  AssignAttr(AssignAttr(v, "statistics", statistics), "updated_at", clock)

update_knowledge_graph_wrap(u, user_id, concept, mastery_delta, interaction_delta, confusion_delta, subject, topic, difficulty, clock) ==
    LET v == get_or_create(u, user_id, clock)
        kg == v.mem[1].knowledge_graph
        e0 == IF concept \in DOMAIN kg THEN kg[concept]
              ELSE [mastery_level |-> 0, last_reviewed |-> clock,
                    interaction_count |-> 0, confusion_score |-> 0,
                    subject |-> subject, topic |-> topic, difficulty |-> difficulty]
        e1 == [e0 EXCEPT
                !.mastery_level =
                    IF mastery_delta = None THEN @
                    ELSE Max(0, Min(10, @ + mastery_delta[1])),
                !.interaction_count = @ + interaction_delta,
                !.confusion_score =
                    IF confusion_delta = None THEN @
                    ELSE (@ + confusion_delta[1]) % 101,
                !.last_reviewed = clock]
    IN  AssignAttr(MutateInPlace(v, "knowledge_graph", SetKey(kg, concept, e1)),
                   "updated_at", clock)

\* mastery_level is held in tenths; mastery_delta and confusion_delta are nullable
update_knowledge_graph(u, user_id, concept, mastery_delta, interaction_delta, confusion_delta, subject, topic, difficulty, clock) ==
    LET v == get_or_create(u, user_id, clock)
        kg == v.mem[1].knowledge_graph
        e0 == IF concept \in DOMAIN kg THEN kg[concept]
              ELSE [mastery_level |-> 0, last_reviewed |-> clock,
                    interaction_count |-> 0, confusion_score |-> 0,
                    subject |-> subject, topic |-> topic, difficulty |-> difficulty]
        e1 == [e0 EXCEPT
                !.mastery_level =
                    IF mastery_delta = None THEN @
                    ELSE Max(0, Min(10, @ + mastery_delta[1])),
                !.interaction_count = @ + interaction_delta,
                !.confusion_score =
                    IF confusion_delta = None THEN @
                    ELSE Max(0, Min(100, @ + confusion_delta[1])),
                !.last_reviewed = clock,
                !.subject = IF subject # None THEN subject ELSE @,
                !.topic = IF topic # None THEN topic ELSE @,
                !.difficulty = IF difficulty # None THEN difficulty ELSE @]
    IN  AssignAttr(MutateInPlace(v, "knowledge_graph", SetKey(kg, concept, e1)),
                   "updated_at", clock)

(***************************************************************************)
(* crud: session summary operations.  A summary attribute is only ever     *)
(* assigned, so the object and the flushed row agree and only the row is   *)
(* kept.                                                                   *)
(***************************************************************************)
\* session.query(SessionSummary).filter(session_id == ...).first(), as a set
get_session_summary(u, session_id) ==
    {r \in u.summaries : r.session_id = session_id}

\* SessionSummaryCreate(session_id=..., user_id=..., **summary_data) and
\* create_session_summary; session_id is a unique column
create_session_summary(u, session_id, user_id, d, clock) ==
    IF ~Has(d, "core_topic") \/ ~Has(d, "key_points")
    THEN Raise(u, "ValidationError")
    ELSE IF get_session_summary(u, session_id) # {}
    THEN Raise([u EXCEPT !.seq.summary = @ + 1], "IntegrityError")
    ELSE LET row ==
                [id |-> u.seq.summary + 1,
                 session_id |-> session_id,
                 user_id |-> user_id,
                 core_topic |-> d.core_topic,
                 key_points |-> d.key_points,
                 resolved_questions |-> Get(d, "resolved_questions", <<>>),
                 unresolved_questions |-> Get(d, "unresolved_questions", <<>>),
                 user_preferences |-> Get(d, "user_preferences", <<>>),
                 weak_points |-> Get(d, "weak_points", <<>>),
                 subject |-> Get(d, "subject", None),
                 topic |-> Get(d, "topic", None),
                 difficulty |-> Get(d, "difficulty", None),
                 recent_messages |-> Get(d, "recent_messages", <<>>),
                 message_count |-> Get(d, "message_count", 0),
                 token_count |-> Get(d, "token_count", 0),
                 generated_at |-> clock,
                 created_at |-> clock,
                 updated_at |-> clock]
         IN  [u EXCEPT !.summaries = @ \cup {row}, !.seq.summary = @ + 1]

update_session_summary_keep_points(u, session_id, upd, clock) ==
    LET old == CHOOSE r \in u.summaries : r.session_id = session_id
        new == [old EXCEPT
                 !.core_topic = IF upd.core_topic # None THEN upd.core_topic[1] ELSE @,
                 !.resolved_questions =
                     IF upd.resolved_questions # None THEN upd.resolved_questions[1] ELSE @,
                 !.unresolved_questions =
                     IF upd.unresolved_questions # None THEN upd.unresolved_questions[1] ELSE @,
                 !.weak_points = IF upd.weak_points # None THEN upd.weak_points[1] ELSE @,
                 !.updated_at = clock]
    IN  [u EXCEPT !.summaries = (@ \ {old}) \cup {new}]

\* upd is a SessionSummaryUpdate: every field is nullable and a field that is
\* None is left as it is
update_session_summary(u, session_id, upd, clock) ==
    LET old == CHOOSE r \in u.summaries : r.session_id = session_id
        new == [old EXCEPT
                 !.core_topic = IF upd.core_topic # None THEN upd.core_topic[1] ELSE @,
                 !.key_points = IF upd.key_points # None THEN upd.key_points[1] ELSE @,
                 !.resolved_questions =
                     IF upd.resolved_questions # None THEN upd.resolved_questions[1] ELSE @,
                 !.unresolved_questions =
                     IF upd.unresolved_questions # None THEN upd.unresolved_questions[1] ELSE @,
                 !.weak_points = IF upd.weak_points # None THEN upd.weak_points[1] ELSE @,
                 !.updated_at = clock]
    IN  [u EXCEPT !.summaries = (@ \ {old}) \cup {new}]

(***************************************************************************)
(* SummarizerAgent._update_user_profile, step by step                      *)
(***************************************************************************)
ConceptMaxWords == 5
ConceptMaxChars == 50

RECURSIVE JoinWords(_)
\* " ".join(words)
JoinWords(words) ==
    IF words = <<>> THEN ""
    ELSE IF Len(words) = 1 THEN words[1]
    ELSE words[1] \o " " \o JoinWords(Tail(words))

\* " ".join(point.split()[0:5])[:50]
Concept(point) ==
    LET joined == JoinWords(SubSeq(point, 1, Min(ConceptMaxWords, Len(point))))
    IN  IF Len(joined) > ConceptMaxChars THEN SubSeq(joined, 1, ConceptMaxChars) ELSE joined

\* {**wp, "last_confused": ..., "subject": ..., "topic": ...}
BuildObservation(wp, summary) ==
    SetKey(SetKey(SetKey(wp,
        "last_confused", OrElse(Get(summary, "created_at", None),
                                Get(summary, "generated_at", None))),
        "subject", OrElse(Get(wp, "subject", None), Get(summary, "subject", None))),
        "topic", OrElse(Get(wp, "topic", None), Get(summary, "topic", None)))

StepPreferences(u, user_id, summary, clock) ==
    IF Has(summary, "user_preferences")
    THEN update_profile_preferences(u, user_id, summary.user_preferences, clock)
    ELSE u

StepWeakPoints(u, user_id, summary, clock) ==
    IF Has(summary, "weak_points") /\ summary.weak_points # <<>>
    THEN update_weak_points(u, user_id,
            [i \in DOMAIN summary.weak_points |->
                BuildObservation(summary.weak_points[i], summary)], clock)
    ELSE u

StepStatistics_every_session(u, user_id, summary, clock) ==
    increment_profile_statistics(u, user_id, TRUE, TRUE, TRUE,
                                 Some(Get(summary, "message_count", 0)), clock)

StepStatistics(u, user_id, summary, clock) ==
    LET total_questions == Len(Get(summary, "resolved_questions", <<>>))
                           + Len(Get(summary, "unresolved_questions", <<>>))
    IN  increment_profile_statistics(u, user_id, TRUE, total_questions > 0, TRUE,
                                     Some(Get(summary, "message_count", 0)), clock)

RECURSIVE KnowledgeLoop(_, _, _, _, _)
KnowledgeLoop(u, user_id, points, summary, clock) ==
    IF points = <<>> THEN u
    ELSE KnowledgeLoop(
            update_knowledge_graph(u, user_id, Concept(Head(points)), Some(1), 1, None,
                                   Get(summary, "subject", None),
                                   Get(summary, "topic", None),
                                   Get(summary, "difficulty", None), clock),
            user_id, Tail(points), summary, clock)

StepKnowledgeGraph(u, user_id, summary, clock) ==
    IF Has(summary, "key_points")
    THEN KnowledgeLoop(u, user_id, summary.key_points, summary, clock)
    ELSE u

(***************************************************************************)
(* SummarizerAgent.process inside get_db_session                           *)
(***************************************************************************)
\* a session that has loaded and written nothing
EmptyUnit ==
    [summaries |-> {}, profiles |-> {}, mem |-> None,
     seq |-> [summary |-> 0, profile |-> 0], err |-> ""]

\* no call made yet
NoOp == [kind |-> "none"]

\* no worker is consolidating
NoWorkers == <<>>

IdleTx ==
    [pc |-> "idle", session_id |-> "", user_id |-> "", summary |-> <<>>, llm |-> "",
     u |-> EmptyUnit, summary_id |-> None, path |-> ""]

RetNone ==
    [status |-> "none", error |-> "", raised_in |-> "", session_id |-> "",
     user_id |-> "", summary_id |-> None, path |-> "", llm |-> ""]

TxSteps == {"upsert", "prefs", "weak", "stats", "kg", "commit"}

\* the except branch of get_db_session: rollback, close, re-raise
Rollback(u, error, where) ==
    /\ tx' = IdleTx
    /\ seq' = u.seq
    /\ ret' = [RetNone EXCEPT !.status = "raised", !.error = error, !.raised_in = where,
                              !.session_id = tx.session_id, !.user_id = tx.user_id,
                              !.path = tx.path, !.llm = tx.llm]
    /\ UNCHANGED <<db_summaries, db_profiles>>

\* the unit of work moves on to the next statement, or the exception leaves it
Advance(u, next_pc) ==
    IF u.err # ""
    THEN Rollback(u, u.err, "process")
    ELSE /\ tx' = [tx EXCEPT !.pc = next_pc, !.u = u]
         /\ seq' = u.seq
         /\ UNCHANGED <<db_summaries, db_profiles, ret>>

Frame == UNCHANGED <<cfg, t_msgs, t_force, t_ret, wp_list, wp_calls, unit, op, conc>>

\* process without the trigger check of lines 67-75
Process_unchecked(session_id, user_id, messages, force, llm) ==
    /\ tx.pc = "idle"
    /\ now < MaxEvents
    /\ now' = now + 1
    /\ LET called == [RetNone EXCEPT !.session_id = session_id, !.user_id = user_id]
           g == generate_summary(messages, llm, cfg)
       IN  IF ~g.ok
           THEN /\ ret' = [called EXCEPT !.status = "raised", !.error = g.error,
                                         !.raised_in = "_generate_summary",
                                         !.llm = llm.kind]
                /\ tx' = tx
           ELSE /\ ret' = RetNone
                /\ tx' = [IdleTx EXCEPT
                            !.pc = "upsert", !.session_id = session_id,
                            !.user_id = user_id, !.summary = g.summary,
                            !.llm = IF llm.kind = "json_object"
                                       /\ ~(SummaryCoreFields \subseteq DOMAIN llm.obj)
                                    THEN "json_other_shape" ELSE llm.kind,
                            !.u = [summaries |-> db_summaries, profiles |-> db_profiles,
                                   mem |-> None, seq |-> seq, err |-> ""]]
    /\ UNCHANGED <<db_summaries, db_profiles, seq>>
    /\ Frame

\* lines 67-81: trigger check, summary generation, opening of the session
Process(session_id, user_id, messages, force, llm) ==
    /\ tx.pc = "idle"
    /\ now < MaxEvents
    /\ now' = now + 1
    /\ LET called == [RetNone EXCEPT !.session_id = session_id, !.user_id = user_id]
           g == generate_summary(messages, llm, cfg)
       IN  IF ~should_trigger_summary(messages, force, cfg)
           THEN /\ ret' = [called EXCEPT !.status = "skipped"]
                /\ tx' = tx
           ELSE IF ~g.ok
           THEN /\ ret' = [called EXCEPT !.status = "raised", !.error = g.error,
                                         !.raised_in = "_generate_summary",
                                         !.llm = llm.kind]
                /\ tx' = tx
           ELSE /\ ret' = RetNone
                /\ tx' = [IdleTx EXCEPT
                            !.pc = "upsert", !.session_id = session_id,
                            !.user_id = user_id, !.summary = g.summary,
                            !.llm = IF llm.kind = "json_object"
                                       /\ ~(SummaryCoreFields \subseteq DOMAIN llm.obj)
                                    THEN "json_other_shape" ELSE llm.kind,
                            !.u = [summaries |-> db_summaries, profiles |-> db_profiles,
                                   mem |-> None, seq |-> seq, err |-> ""]]
    /\ UNCHANGED <<db_summaries, db_profiles, seq>>
    /\ Frame

\* lines 83-107: update the existing summary or create one
Upsert ==
    /\ tx.pc = "upsert"
    /\ LET d == tx.summary
           existing == get_session_summary(tx.u, tx.session_id)
       IN  IF existing # {}
           THEN IF ~(SummaryCoreFields \subseteq DOMAIN d)
                THEN Rollback(tx.u, "KeyError", "process")
                ELSE LET u2 == update_session_summary(tx.u, tx.session_id,
                                    [core_topic |-> Some(d.core_topic),
                                     key_points |-> Some(d.key_points),
                                     resolved_questions |-> Some(d.resolved_questions),
                                     unresolved_questions |-> Some(d.unresolved_questions),
                                     weak_points |-> Some(d.weak_points)], now)
                     IN  /\ tx' = [tx EXCEPT !.pc = "prefs", !.u = u2, !.path = "update",
                                    !.summary_id =
                                        Some((CHOOSE r \in existing : TRUE).id)]
                         /\ seq' = u2.seq
                         /\ UNCHANGED <<db_summaries, db_profiles, ret>>
           ELSE LET u2 == create_session_summary(tx.u, tx.session_id, tx.user_id, d, now)
                IN  IF u2.err # ""
                    THEN Rollback(u2, u2.err, "process")
                    ELSE /\ tx' = [tx EXCEPT !.pc = "prefs", !.u = u2, !.path = "create",
                                    !.summary_id = Some(u2.seq.summary)]
                         /\ seq' = u2.seq
                         /\ UNCHANGED <<db_summaries, db_profiles, ret>>
    /\ UNCHANGED now
    /\ Frame

UpdatePreferences ==
    /\ tx.pc = "prefs"
    /\ Advance(StepPreferences(tx.u, tx.user_id, tx.summary, now), "weak")
    /\ UNCHANGED now
    /\ Frame

UpdateWeakPoints ==
    /\ tx.pc = "weak"
    /\ Advance(StepWeakPoints(tx.u, tx.user_id, tx.summary, now), "stats")
    /\ UNCHANGED now
    /\ Frame

IncrementStatistics ==
    /\ tx.pc = "stats"
    /\ Advance(StepStatistics(tx.u, tx.user_id, tx.summary, now), "kg")
    /\ UNCHANGED now
    /\ Frame

UpdateKnowledgeGraph ==
    /\ tx.pc = "kg"
    /\ Advance(StepKnowledgeGraph(tx.u, tx.user_id, tx.summary, now), "commit")
    /\ UNCHANGED now
    /\ Frame

\* get_db_session line 117 and process lines 116-122
Commit ==
    /\ tx.pc = "commit"
    /\ db_summaries' = tx.u.summaries
    /\ db_profiles' = tx.u.profiles
    /\ seq' = tx.u.seq
    /\ ret' = [RetNone EXCEPT !.status = "ok", !.session_id = tx.session_id,
                              !.user_id = tx.user_id, !.summary_id = tx.summary_id,
                              !.path = tx.path, !.llm = tx.llm]
    /\ tx' = IdleTx
    /\ UNCHANGED now
    /\ Frame

\* a flush or the commit fails in the persistence engine
PersistenceFailure ==
    /\ tx.pc \in TxSteps
    /\ Rollback(tx.u, "OperationalError", "database")
    /\ UNCHANGED now
    /\ Frame

\* the deployment of chat.py: 3 rounds; token threshold and keep count scaled
\* to the conversations of the model
DeployedConfig == [trigger_rounds |-> 3, trigger_tokens |-> 4, keep_recent |-> 2]

Init ==
    /\ cfg = DeployedConfig
    /\ t_msgs = <<>>
    /\ t_force = FALSE
    /\ t_ret = None
    /\ wp_list = <<>>
    /\ wp_calls = 0
    /\ db_summaries = {}
    /\ db_profiles = {}
    /\ seq = [summary |-> 0, profile |-> 0]
    /\ now = 0
    /\ tx = IdleTx
    /\ ret = RetNone
    /\ unit = EmptyUnit
    /\ op = NoOp
    /\ conc = NoWorkers

Next ==
    \/ \E session_id \in Sessions, user_id \in Users, messages \in Conversations,
          force \in BOOLEAN, llm \in LLMOutcomes :
            Process(session_id, user_id, messages, force, llm)
    \/ Upsert
    \/ UpdatePreferences
    \/ UpdateWeakPoints
    \/ IncrementStatistics
    \/ UpdateKnowledgeGraph
    \/ Commit
    \/ PersistenceFailure

Spec == Init /\ [][Next]_vars

(***************************************************************************)
(* The trigger policy on its own: any configuration, any conversation of   *)
(* at most MaxTurns messages, either value of force.                       *)
(***************************************************************************)
InitTrigger ==
    /\ cfg \in Configs
    /\ t_msgs \in SeqsUpTo(Messages, MaxTurns)
    /\ t_force \in BOOLEAN
    /\ t_ret = None
    /\ wp_list = <<>>
    /\ wp_calls = 0
    /\ db_summaries = {}
    /\ db_profiles = {}
    /\ seq = [summary |-> 0, profile |-> 0]
    /\ now = 0
    /\ tx = IdleTx
    /\ ret = RetNone
    /\ unit = EmptyUnit
    /\ op = NoOp
    /\ conc = NoWorkers

TriggerCall ==
    /\ t_ret = None
    /\ t_ret' = Some(should_trigger_summary(t_msgs, t_force, cfg))
    /\ UNCHANGED <<cfg, t_msgs, t_force, wp_list, wp_calls,
                   db_summaries, db_profiles, seq, now, tx, ret, unit, op, conc>>

SpecTrigger == InitTrigger /\ [][TriggerCall]_vars

(***************************************************************************)
(* The weak-point merge on its own: update_weak_points called with any     *)
(* batch of at most MaxBatch observations on the list those calls built.   *)
(* The observations carry the keys _update_user_profile gives them.        *)
(***************************************************************************)
WPConcepts == {"c1", "c2"}
WPScores == {30, 50}
\* where an observation comes from: the summary's timestamp and subject
WPOrigins ==
    {[last_confused |-> Some(1), subject |-> None],
     [last_confused |-> Some(2), subject |-> Some("math")]}

Observations ==
    {[concept |-> c, confusion_score |-> sc, last_confused |-> o.last_confused,
      subject |-> o.subject, topic |-> None] :
        c \in WPConcepts, sc \in WPScores, o \in WPOrigins}

InitMerge ==
    /\ cfg = DeployedConfig
    /\ t_msgs = <<>>
    /\ t_force = FALSE
    /\ t_ret = None
    /\ wp_list = <<>>
    /\ wp_calls = 0
    /\ db_summaries = {}
    /\ db_profiles = {}
    /\ seq = [summary |-> 0, profile |-> 0]
    /\ now = 0
    /\ tx = IdleTx
    /\ ret = RetNone
    /\ unit = EmptyUnit
    /\ op = NoOp
    /\ conc = NoWorkers

MergeBatch(batch) ==
    /\ wp_calls < MaxCalls
    /\ wp_calls' = wp_calls + 1
    /\ wp_list' = update_weak_points_list(wp_list, batch, now)
    /\ UNCHANGED <<cfg, t_msgs, t_force, t_ret,
                   db_summaries, db_profiles, seq, now, tx, ret, unit, op, conc>>

NextMerge == \E batch \in SeqsUpTo(Observations, MaxBatch) : MergeBatch(batch)

SpecMerge == InitMerge /\ [][NextMerge]_vars

\* The same merges on fewer observations: the higher score of a concept is
\* only seen from the second origin.
GrowObservations ==
    {obs \in Observations : obs.confusion_score = 50 => obs.last_confused = Some(2)}

NextGrow == \E batch \in SeqsUpTo(GrowObservations, MaxBatch) : MergeBatch(batch)

SpecGrow == InitMerge /\ [][NextGrow]_vars

(***************************************************************************)
(* SummarizerAgent.process lines 83-114 as one function of the session:    *)
(* the summary upsert followed by _update_user_profile.                    *)
(***************************************************************************)
\* an upsert that replaces the existing record by one made from the new summary
upsert_summary_recreate(u, session_id, user_id, d, clock) ==
    create_session_summary([u EXCEPT !.summaries = @ \ get_session_summary(u, session_id)],
                           session_id, user_id, d, clock)

upsert_summary(u, session_id, user_id, d, clock) ==
    IF get_session_summary(u, session_id) # {}
    THEN IF ~(SummaryCoreFields \subseteq DOMAIN d)
         THEN Raise(u, "KeyError")
         ELSE update_session_summary(u, session_id,
                 [core_topic |-> Some(d.core_topic),
                  key_points |-> Some(d.key_points),
                  resolved_questions |-> Some(d.resolved_questions),
                  unresolved_questions |-> Some(d.unresolved_questions),
                  weak_points |-> Some(d.weak_points)], clock)
    ELSE create_session_summary(u, session_id, user_id, d, clock)

update_user_profile_steps(u, user_id, summary, clock) ==
    LET a == IF u.err # "" THEN u ELSE StepPreferences(u, user_id, summary, clock)
        b == IF a.err # "" THEN a ELSE StepWeakPoints(a, user_id, summary, clock)
        c == IF b.err # "" THEN b ELSE StepStatistics(b, user_id, summary, clock)
    IN  IF c.err # "" THEN c ELSE StepKnowledgeGraph(c, user_id, summary, clock)

\* the rows a session that ran to its commit leaves persisted
consolidate(db, session_id, user_id, summary, clock) ==
    LET u0 == [EmptyUnit EXCEPT !.summaries = db.summaries, !.profiles = db.profiles,
                                !.seq = db.seq]
        u1 == update_user_profile_steps(
                 upsert_summary(u0, session_id, user_id, summary, clock),
                 user_id, summary, clock)
    IN  IF u1.err # "" THEN [db EXCEPT !.seq = u1.seq]
        ELSE [summaries |-> u1.summaries, profiles |-> u1.profiles, seq |-> u1.seq]

(***************************************************************************)
(* Concurrent consolidations.  The API runs several workers on one         *)
(* PostgreSQL database at its default isolation level (read committed):    *)
(* a SELECT sees the committed rows and is never blocked; an UPDATE or an  *)
(* INSERT waits while another transaction holds an uncommitted write of    *)
(* the same row or unique key, and then acts on the committed row; an      *)
(* UPDATE sets the columns whose attribute was assigned; an object once    *)
(* loaded into a session is not read again.  No statement of the code      *)
(* takes a lock of its own.                                                *)
(***************************************************************************)
Workers == {1, 2}

EmptyDb == [summaries |-> {}, profiles |-> {}, seq |-> [summary |-> 0, profile |-> 0]]

\* the summary worker p consolidates: the extractor's value for a response
WorkerSummary(p) ==
    generate_summary(Conv(6), [kind |-> "json_object",
                               obj |-> IF p = 1 THEN ObjFull1 ELSE ObjFull2],
                     DeployedConfig).summary

\* get_or_create_profile on a database without the profile, committed
ProfileFetched(db, user_id, clock) ==
    LET u == create_user_profile(
                [EmptyUnit EXCEPT !.profiles = db.profiles, !.seq = db.seq], user_id, clock)
    IN  [db EXCEPT !.profiles = u.profiles, !.seq = u.seq]

\* the databases the workers start from: empty, after a first get_profile of
\* the user, after an earlier consolidation of session s1
ConcStarts ==
    {EmptyDb,
     ProfileFetched(EmptyDb, "u1", 0),
     consolidate(EmptyDb, "s1", "u1", WorkerSummary(1), 0)}

WorkerIdle ==
    [pc |-> "select", session_id |-> "", user_id |-> "", summary |-> <<>>,
     u |-> EmptyUnit, existing |-> {}, base |-> None, locks |-> {},
     status |-> "running", error |-> "", raised_in |-> ""]

SummaryKey(w) == <<"summary", w.session_id>>
ProfileKey(w) == <<"profile", w.user_id>>

\* another worker holds an uncommitted write of the row or unique key
HeldByOther(p, key) == \E q \in Workers \ {p} : key \in conc[q].locks

\* the exception leaves the with block: rollback, the locks are released
WorkerRaise(p, u, error, where) ==
    /\ conc' = [conc EXCEPT ![p] = [@ EXCEPT !.pc = "failed", !.u = u, !.locks = {},
                                              !.status = "raised", !.error = error,
                                              !.raised_in = where]]
    /\ seq' = u.seq
    /\ UNCHANGED <<db_summaries, db_profiles>>

FrameConc == UNCHANGED <<cfg, t_msgs, t_force, t_ret, wp_list, wp_calls, tx, ret, unit, op>>

\* process line 85: get_session_summary, a SELECT
SelectSummary(p) ==
    /\ conc[p].pc = "select"
    /\ now' = now + 1
    /\ conc' = [conc EXCEPT ![p] =
                  [@ EXCEPT !.pc = "write_summary",
                            !.existing = {r \in db_summaries :
                                            r.session_id = conc[p].session_id}]]
    /\ UNCHANGED <<db_summaries, db_profiles, seq>>
    /\ FrameConc

\* process lines 87-107: the UPDATE or the INSERT of the summary row
WriteSummary(p) ==
    LET w == conc[p]
        v == [w.u EXCEPT !.summaries = db_summaries, !.seq = seq]
    IN  /\ w.pc = "write_summary"
        /\ ~HeldByOther(p, SummaryKey(w))
        /\ LET u2 == IF w.existing # {}
                     THEN IF ~(SummaryCoreFields \subseteq DOMAIN w.summary)
                          THEN Raise(v, "KeyError")
                          ELSE update_session_summary(v, w.session_id,
                                  [core_topic |-> Some(w.summary.core_topic),
                                   key_points |-> Some(w.summary.key_points),
                                   resolved_questions |-> Some(w.summary.resolved_questions),
                                   unresolved_questions |-> Some(w.summary.unresolved_questions),
                                   weak_points |-> Some(w.summary.weak_points)], now)
                     ELSE create_session_summary(v, w.session_id, w.user_id, w.summary, now)
           IN  IF u2.err # ""
               THEN WorkerRaise(p, u2, u2.err,
                                IF w.existing # {} THEN "process" ELSE "create_session_summary")
               ELSE /\ conc' = [conc EXCEPT ![p] =
                                  [@ EXCEPT !.pc = "load_profile", !.u = u2,
                                            !.locks = @ \cup {SummaryKey(w)}]]
                    /\ seq' = u2.seq
                    /\ UNCHANGED <<db_summaries, db_profiles>>
        /\ UNCHANGED now
        /\ FrameConc

\* get_user_profile of the first profile operation: a SELECT
LoadProfile(p) ==
    LET w == conc[p]
    IN  /\ w.pc = "load_profile"
        /\ conc' = [conc EXCEPT ![p] =
              IF HasProfile(db_profiles, w.user_id)
              THEN [@ EXCEPT !.pc = "prefs",
                             !.u = [@ EXCEPT !.profiles = db_profiles,
                                             !.mem = Some(ProfileRow(db_profiles, w.user_id))],
                             !.base = Some(ProfileRow(db_profiles, w.user_id))]
              ELSE [@ EXCEPT !.pc = "create_profile"]]
        /\ UNCHANGED <<db_summaries, db_profiles, seq, now>>
        /\ FrameConc

\* create_user_profile of the first profile operation: an INSERT; user_id is unique
CreateProfile(p) ==
    LET w == conc[p]
        v == [w.u EXCEPT !.profiles = db_profiles, !.seq = seq]
    IN  /\ w.pc = "create_profile"
        /\ ~HeldByOther(p, ProfileKey(w))
        /\ IF HasProfile(db_profiles, w.user_id)
           THEN WorkerRaise(p, [v EXCEPT !.seq.profile = @ + 1], "IntegrityError",
                            "create_user_profile")
           ELSE LET u2 == create_user_profile(v, w.user_id, now)
                IN  /\ conc' = [conc EXCEPT ![p] =
                                  [@ EXCEPT !.pc = "prefs", !.u = u2,
                                            !.locks = @ \cup {ProfileKey(w)}]]
                    /\ seq' = u2.seq
                    /\ UNCHANGED <<db_summaries, db_profiles>>
        /\ UNCHANGED now
        /\ FrameConc

\* one statement of _update_user_profile; the flush at its end is an UPDATE
\* of the profile row
ProfileStep(p, pc, next_pc, u2) ==
    LET w == conc[p]
    IN  /\ w.pc = pc
        /\ (u2 # w.u) => ~HeldByOther(p, ProfileKey(w))
        /\ IF u2.err # ""
           THEN WorkerRaise(p, u2, u2.err, "process")
           ELSE /\ conc' = [conc EXCEPT ![p] =
                              [@ EXCEPT !.pc = next_pc, !.u = u2,
                                        !.locks = IF u2 # w.u THEN @ \cup {ProfileKey(w)}
                                                  ELSE @]]
                /\ UNCHANGED <<db_summaries, db_profiles, seq>>
        /\ UNCHANGED now
        /\ FrameConc

WorkerPreferences(p) ==
    /\ conc[p].pc = "prefs"
    /\ ProfileStep(p, "prefs", "weak",
                StepPreferences(conc[p].u, conc[p].user_id, conc[p].summary, now))

WorkerWeakPoints(p) ==
    /\ conc[p].pc = "weak"
    /\ ProfileStep(p, "weak", "stats",
                StepWeakPoints(conc[p].u, conc[p].user_id, conc[p].summary, now))

WorkerStatistics(p) ==
    /\ conc[p].pc = "stats"
    /\ ProfileStep(p, "stats", "kg",
                StepStatistics(conc[p].u, conc[p].user_id, conc[p].summary, now))

WorkerKnowledgeGraph(p) ==
    /\ conc[p].pc = "kg"
    /\ ProfileStep(p, "kg", "commit",
                StepKnowledgeGraph(conc[p].u, conc[p].user_id, conc[p].summary, now))

\* the columns of the profile row the session's UPDATEs have set
WrittenColumns(base, mine) == {f \in DOMAIN base : mine[f] # base[f]}

\* session.commit(): the session's writes become the committed rows
WorkerCommit(p) ==
    LET w == conc[p]
        my_summary == {r \in w.u.summaries : r.session_id = w.session_id}
        my_profile == CHOOSE r \in w.u.profiles : r.id = w.u.mem[1].id
    IN  /\ w.pc = "commit"
        /\ db_summaries' =
              {r \in db_summaries : r.session_id # w.session_id} \cup my_summary
        /\ db_profiles' =
              IF w.base = None
              THEN db_profiles \cup {my_profile}
              ELSE LET cur == ProfileRow(db_profiles, w.user_id)
                       set == WrittenColumns(w.base[1], my_profile)
                   IN  (db_profiles \ {cur})
                         \cup {[f \in DOMAIN cur |-> IF f \in set THEN my_profile[f] ELSE cur[f]]}
        /\ conc' = [conc EXCEPT ![p] = [@ EXCEPT !.pc = "done", !.locks = {},
                                                  !.status = "ok"]]
        /\ UNCHANGED <<seq, now>>
        /\ FrameConc

InitConc ==
    /\ cfg = DeployedConfig
    /\ t_msgs = <<>>
    /\ t_force = FALSE
    /\ t_ret = None
    /\ wp_list = <<>>
    /\ wp_calls = 0
    /\ \E db \in ConcStarts :
          /\ db_summaries = db.summaries
          /\ db_profiles = db.profiles
          /\ seq = db.seq
          /\ op = [kind |-> "start", summaries |-> db.summaries, profiles |-> db.profiles]
    /\ now = 0
    /\ tx = IdleTx
    /\ ret = RetNone
    /\ unit = EmptyUnit
    /\ \E sessions \in [Workers -> Sessions] :
          conc = [p \in Workers |->
                    [WorkerIdle EXCEPT !.session_id = sessions[p], !.user_id = "u1",
                                       !.summary = WorkerSummary(p)]]

NextConc ==
    \E p \in Workers :
        \/ SelectSummary(p)
        \/ WriteSummary(p)
        \/ LoadProfile(p)
        \/ CreateProfile(p)
        \/ WorkerPreferences(p)
        \/ WorkerWeakPoints(p)
        \/ WorkerStatistics(p)
        \/ WorkerKnowledgeGraph(p)
        \/ WorkerCommit(p)

SpecConc == InitConc /\ [][NextConc]_vars

(***************************************************************************)
(* update_knowledge_graph on its own: calls with any deltas, within and    *)
(* far beyond the ranges, in one session.                                  *)
(***************************************************************************)
KGConcepts == {"k1", "k2"}
\* mastery deltas in tenths
MasteryDeltas == {None, Some(-20), Some(-3), Some(4), Some(20)}
ConfusionDeltas == {None, Some(-150), Some(-40), Some(60), Some(150)}

\* the profile object of the session, before and after it is created
LoadedProfile(u) ==
    IF u.mem = None
    THEN [preferences |-> DefaultPreferences, statistics |-> DefaultStatistics,
          knowledge_graph |-> <<>>, interests |-> <<>>, weak_points |-> <<>>]
    ELSE u.mem[1]

InitKG ==
    /\ cfg = DeployedConfig
    /\ t_msgs = <<>>
    /\ t_force = FALSE
    /\ t_ret = None
    /\ wp_list = <<>>
    /\ wp_calls = 0
    /\ db_summaries = {}
    /\ db_profiles = {}
    /\ seq = [summary |-> 0, profile |-> 0]
    /\ now = 0
    /\ tx = IdleTx
    /\ ret = RetNone
    /\ unit = EmptyUnit
    /\ op = [kind |-> "kg", calls |-> 0]
    /\ conc = NoWorkers

FrameOps ==
    UNCHANGED <<cfg, t_msgs, t_force, t_ret, wp_list, wp_calls,
                db_summaries, db_profiles, seq, now, tx, ret, conc>>

KGCall(concept, mastery_delta, confusion_delta) ==
    /\ op.calls < MaxKGCalls
    /\ unit' = update_knowledge_graph(unit, "u1", concept, mastery_delta, 1,
                                      confusion_delta, None, None, None, now)
    /\ op' = [kind |-> "kg", calls |-> op.calls + 1, concept |-> concept,
              mastery_delta |-> mastery_delta, confusion_delta |-> confusion_delta,
              old |-> LoadedProfile(unit).knowledge_graph]
    /\ FrameOps

NextKG ==
    \E concept \in KGConcepts, mastery_delta \in MasteryDeltas,
       confusion_delta \in ConfusionDeltas :
        KGCall(concept, mastery_delta, confusion_delta)

SpecKG == InitKG /\ [][NextKG]_vars

(***************************************************************************)
(* increment_profile_statistics on its own.  session_length is a whole     *)
(* number (a message count).  round(x, 2) of a value that lies exactly     *)
(* between two hundredths depends on the binary representation of x:       *)
(* either neighbour is a possible result.                                  *)
(***************************************************************************)
SessionLengths == {None, Some(10), Some(15), Some(20)}
\* increment_sessions, increment_questions, increment_active_days
StatFlags == {<<FALSE, FALSE, FALSE>>, <<TRUE, FALSE, FALSE>>, <<TRUE, TRUE, TRUE>>}

RoundTie(num, den) == 2 * (num % den) = den

InitStats ==
    /\ cfg = DeployedConfig
    /\ t_msgs = <<>>
    /\ t_force = FALSE
    /\ t_ret = None
    /\ wp_list = <<>>
    /\ wp_calls = 0
    /\ db_summaries = {}
    /\ db_profiles = {}
    /\ seq = [summary |-> 0, profile |-> 0]
    /\ now = 0
    /\ tx = IdleTx
    /\ ret = RetNone
    /\ unit = EmptyUnit
    /\ op = [kind |-> "stats", calls |-> 0]
    /\ conc = NoWorkers

StatsCall(flags, session_length) ==
    LET old == LoadedProfile(unit).statistics
        u2 == increment_profile_statistics(unit, "u1", flags[1], flags[2], flags[3],
                                           session_length, now)
        num == old.avg_session_length * old.total_sessions
                 + 100 * OrElse(session_length, Some(0))[1]
        den == old.total_sessions + 1
        st2 == u2.mem[1].statistics
        other == [st2 EXCEPT !.avg_session_length = (2 * num) \div den - @]
    IN  /\ op.calls < MaxStatCalls
        /\ unit' \in IF session_length # None /\ den > 1 /\ RoundTie(num, den)
                     THEN {u2, AssignAttr(u2, "statistics", other)}
                     ELSE {u2}
        /\ op' = [kind |-> "stats", calls |-> op.calls + 1, increment_sessions |-> flags[1],
                  session_length |-> session_length, old |-> old]
        /\ FrameOps

NextStats ==
    \E flags \in StatFlags, session_length \in SessionLengths :
        StatsCall(flags, session_length)

SpecStats == InitStats /\ [][NextStats]_vars

(***************************************************************************)
(* ProfileAgent: process (preference inference behind the confidence gate) *)
(* and update_preferences.  confidence is held in tenths.                  *)
(***************************************************************************)
\* the value of _infer_preferences: {} when the messages are empty, the call
\* fails or the response is not JSON; else the parsed response, a dict
\* ("dict"), a dict whose confidence is not a number ("dict_text_confidence")
\* or another JSON value ("other")
InferredPreferences ==
    {[kind |-> "dict", value |-> <<>>],
     [kind |-> "dict", value |-> [learning_style |-> "visual", confidence |-> 3]],
     [kind |-> "dict", value |-> [learning_style |-> "visual", confidence |-> 5]],
     [kind |-> "dict", value |-> [learning_style |-> "visual", confidence |-> 6]],
     [kind |-> "dict", value |-> [learning_style |-> "hands_on"]],
     [kind |-> "dict_text_confidence", value |-> [learning_style |-> "visual"]],
     [kind |-> "other", value |-> <<>>]}

\* database.get_or_create_profile
get_or_create_profile(u, user_id, clock) ==
    LET v == get_user_profile(u, user_id)
    IN  IF v.mem = None THEN create_user_profile(v, user_id, clock) ELSE v

\* ProfileAgent.process lines 57-65 as a function of the session
profile_process(u, user_id, inferred, clock) ==
    LET v == get_or_create_profile(u, user_id, clock)
    IN  IF inferred.kind = "other" THEN Raise(v, "AttributeError")
        ELSE IF inferred.kind = "dict_text_confidence" THEN Raise(v, "TypeError")
        ELSE IF Get(inferred.value, "confidence", 0) > 5
        THEN update_profile_preferences(v, user_id, inferred.value, clock)
        ELSE v

\* the rows a session leaves: its writes on commit, nothing on an exception
Committed(u) ==
    IF u.err # "" THEN [summaries |-> db_summaries, profiles |-> db_profiles, seq |-> u.seq]
    ELSE [summaries |-> u.summaries, profiles |-> u.profiles, seq |-> u.seq]

OpenSession ==
    [EmptyUnit EXCEPT !.summaries = db_summaries, !.profiles = db_profiles, !.seq = seq]

StoredProfile(user_id) ==
    IF HasProfile(db_profiles, user_id) THEN Some(ProfileRow(db_profiles, user_id)) ELSE None

FrameAgents ==
    UNCHANGED <<cfg, t_msgs, t_force, t_ret, wp_list, wp_calls, tx, ret, unit, conc>>

Persist(u) ==
    /\ db_summaries' = Committed(u).summaries
    /\ db_profiles' = Committed(u).profiles
    /\ seq' = Committed(u).seq

ProfileProcess(user_id, inferred) ==
    LET u == profile_process(OpenSession, user_id, inferred, now)
    IN  /\ op.calls < MaxAgentCalls
        /\ Persist(u)
        /\ op' = [kind |-> "profile_process", calls |-> op.calls + 1, user_id |-> user_id,
                  inferred |-> inferred, before |-> StoredProfile(user_id),
                  status |-> IF u.err # "" THEN "raised" ELSE "ok", error |-> u.err,
                  profile |-> IF u.err # "" THEN None ELSE u.mem,
                  created |-> ~HasProfile(db_profiles, user_id)]
        /\ UNCHANGED now
        /\ FrameAgents

PreferenceDeltas ==
    {[learning_style |-> "visual"],
     [learning_style |-> "code_first", include_math |-> FALSE],
     [language |-> "en"]}

\* ProfileAgent.update_preferences
UpdatePreferencesCall(user_id, delta) ==
    LET u == update_profile_preferences(OpenSession, user_id, delta, now)
    IN  /\ op.calls < MaxAgentCalls
        /\ Persist(u)
        /\ op' = [kind |-> "update_preferences", calls |-> op.calls + 1, user_id |-> user_id,
                  delta |-> delta, before |-> StoredProfile(user_id),
                  status |-> "ok", error |-> "", profile |-> u.mem]
        /\ UNCHANGED now
        /\ FrameAgents

\* a forced SummarizerAgent.process call, from the trigger to the commit
ConsolidateCall(session_id, user_id, obj) ==
    LET g == generate_summary(Conv(2), [kind |-> "json_object", obj |-> obj], cfg)
        db == consolidate([summaries |-> db_summaries, profiles |-> db_profiles, seq |-> seq],
                          session_id, user_id, g.summary, now)
    IN  /\ op.calls < MaxAgentCalls
        /\ db_summaries' = db.summaries
        /\ db_profiles' = db.profiles
        /\ seq' = db.seq
        /\ op' = [kind |-> "consolidate", calls |-> op.calls + 1, user_id |-> user_id,
                  session_id |-> session_id]
        /\ UNCHANGED now
        /\ FrameAgents

\* time passes
Tick ==
    /\ now < MaxClock
    /\ now' = now + 1
    /\ UNCHANGED <<db_summaries, db_profiles, seq, op>>
    /\ FrameAgents

(***************************************************************************)
(* RetrievalAgent.  The texts are rendered in ASCII: NoMemoriesText stands *)
(* for the sentence _format_summaries returns for an empty list, the       *)
(* labels of the context lines for the Chinese labels of the code.         *)
(***************************************************************************)
RetrievalLimit == 20
TopWeakPoints == 3
ShownKeyPoints == 3
ShownQuestions == 2

NoMemoriesText == "no memories yet"

RECURSIVE JoinWith(_, _)
\* sep.join(parts)
JoinWith(parts, sep) ==
    IF parts = <<>> THEN ""
    ELSE IF Len(parts) = 1 THEN parts[1]
    ELSE parts[1] \o sep \o JoinWith(Tail(parts), sep)

\* xs[:n]
Prefix(xs, n) == SubSeq(xs, 1, Min(n, Len(xs)))

\* sub in text
Contains(text, sub) ==
    \E i \in 1..(Len(text) - Len(sub) + 1) : SubSeq(text, i, i + Len(sub) - 1) = sub

RECURSIVE NewestFirst(_)
\* order_by(created_at.desc()); rows of one creation time by descending id
NewestFirst(rows) ==
    IF rows = {} THEN <<>>
    ELSE LET r == CHOOSE x \in rows :
                    \A y \in rows : \/ x.created_at > y.created_at
                                    \/ (x.created_at = y.created_at /\ x.id >= y.id)
         IN  <<r>> \o NewestFirst(rows \ {r})

\* get_user_session_summaries without the filter on the user
get_user_session_summaries_any_user(rows, user_id, days, limit, clock) ==
    Prefix(NewestFirst({r \in rows : r.created_at >= clock - days}), limit)

\* crud.get_user_session_summaries; days in units of the clock
get_user_session_summaries(rows, user_id, days, limit, clock) ==
    Prefix(NewestFirst({r \in rows : r.user_id = user_id /\ r.created_at >= clock - days}),
           limit)

\* the text of one summary in _format_summaries
FormatSummary(r) ==
    "session: " \o r.session_id
      \o "\ndate: " \o ToString(r.created_at)
      \o "\ntopic: " \o r.core_topic
      \o "\nkey points: "
      \o JoinWith([i \in DOMAIN Prefix(r.key_points, ShownKeyPoints) |->
                      JoinWords(r.key_points[i])], ", ")
      \o "\nresolved: " \o JoinWith(Prefix(r.resolved_questions, ShownQuestions), ", ")
      \o "\nunresolved: " \o JoinWith(Prefix(r.unresolved_questions, ShownQuestions), ", ")
      \o "\n---"

format_summaries(summaries) ==
    IF summaries = <<>> THEN NoMemoriesText
    ELSE JoinWith([i \in DOMAIN summaries |-> FormatSummary(summaries[i])], "\n\n")

\* style_map.get(learning_style, learning_style)
StyleMap(learning_style) ==
    CASE learning_style = "visual" -> "visual learner"
      [] learning_style = "textual" -> "textual learner"
      [] learning_style = "hands_on" -> "hands-on learner"
      [] learning_style = "code_first" -> "code-first learner"
      [] OTHER -> learning_style

\* difficulty_map.get(difficulty, difficulty)
DifficultyMap(difficulty) ==
    CASE difficulty = "beginner" -> "beginner level"
      [] difficulty = "intermediate" -> "intermediate level"
      [] difficulty = "advanced" -> "advanced level"
      [] OTHER -> difficulty

\* RetrievalAgent._get_basic_context; profile is to_dict() or {}
get_basic_context(profile) ==
    LET preferences == Get(profile, "preferences", <<>>)
        weak_points == Get(profile, "weak_points", <<>>)
        top_weak == Prefix(weak_points, TopWeakPoints)
        context_parts ==
            << "- style: " \o StyleMap(Get(preferences, "learning_style", "textual")),
               "- difficulty: "
                  \o DifficultyMap(Get(preferences, "difficulty_preference", "intermediate")) >>
            \o (IF Get(preferences, "include_code", FALSE) = TRUE
                THEN << "- likes code examples" >> ELSE <<>>)
            \o (IF Get(preferences, "include_math", FALSE) = TRUE
                THEN << "- may include formulas" >> ELSE <<>>)
            \o (IF weak_points # <<>>
                THEN << "- weak points: "
                          \o JoinWith([i \in DOMAIN top_weak |->
                                Get(top_weak[i], "concept", "") \o "("
                                  \o ToString(Get(top_weak[i], "confusion_score", 0)) \o ")"],
                                ", ") >>
                ELSE <<>>)
    IN  IF context_parts # <<>> THEN "## profile\n" \o JoinWith(context_parts, "\n")
        ELSE "new user, no profile yet"

\* outcomes of the retrieval call (BaseAgent.call_llm followed by json.loads)
RetrievalObjects ==
    {[suggested_context |-> "suggested", relevant_memories |-> <<"s1">>,
      follow_up_suggestions |-> <<>>],
     [relevant_memories |-> <<"s1">>],
     <<>>}

RetrievalOutcomes ==
    {[kind |-> k, obj |-> <<>>] : k \in {"raise", "text", "json_other"}}
    \cup {[kind |-> "json_object", obj |-> o] : o \in RetrievalObjects}

BasicResult(profile) ==
    [suggested_context |-> get_basic_context(profile), relevant_memories |-> <<>>,
     follow_up_suggestions |-> <<>>]

\* RetrievalAgent._generate_context: the value returned and the number of
\* language-model calls made
generate_context(profile, memories_text, llm) ==
    IF memories_text = "" \/ Contains(memories_text, NoMemoriesText)
    THEN [kind |-> "dict", value |-> BasicResult(profile), llm_calls |-> 0]
    ELSE CASE llm.kind \in {"raise", "text"} ->
                [kind |-> "dict", value |-> BasicResult(profile), llm_calls |-> 1]
           [] llm.kind = "json_other" ->
                [kind |-> "other", value |-> <<>>, llm_calls |-> 1]
           [] OTHER ->
                [kind |-> "dict", value |-> llm.obj, llm_calls |-> 1]

LookbackDays == {1, 7}

\* RetrievalAgent.process
Retrieve(user_id, days, llm) ==
    LET u == get_user_profile(OpenSession, user_id)
        profile == IF u.mem # None THEN u.mem[1] ELSE <<>>
        summaries == get_user_session_summaries(db_summaries, user_id, days,
                                                RetrievalLimit, now)
        context == generate_context(profile, format_summaries(summaries), llm)
    IN  /\ op.calls < MaxAgentCalls
        /\ op' = IF context.kind = "other"
                 THEN [kind |-> "retrieve", calls |-> op.calls + 1, user_id |-> user_id,
                       days |-> days, llm |-> llm, llm_calls |-> context.llm_calls,
                       clock |-> now, summaries |-> db_summaries,
                       before |-> StoredProfile(user_id),
                       status |-> "raised", error |-> "AttributeError"]
                 ELSE [kind |-> "retrieve", calls |-> op.calls + 1, user_id |-> user_id,
                       days |-> days, llm |-> llm, llm_calls |-> context.llm_calls,
                       clock |-> now, summaries |-> db_summaries,
                       before |-> StoredProfile(user_id),
                       status |-> "ok", error |-> "",
                       context |-> Get(context.value, "suggested_context", ""),
                       source_memories |-> Get(context.value, "relevant_memories", <<>>),
                       user_profile |-> profile,
                       weak_points |-> Get(profile, "weak_points", <<>>)]
        /\ UNCHANGED <<db_summaries, db_profiles, seq, now>>
        /\ FrameAgents

\* a summary of a conversation about the sentence _format_summaries returns
\* for an empty list: its core_topic quotes that sentence
ObjMarker ==
    [core_topic |-> "what " \o NoMemoriesText \o " means",
     key_points |-> <<KP1>>,
     resolved_questions |-> <<>>,
     unresolved_questions |-> <<>>,
     user_preferences |-> <<>>,
     weak_points |-> <<>>,
     subject |-> None,
     topic |-> None,
     difficulty |-> None]

AgentObjects == {ObjFull1, ObjFull2, ObjMarker}

InitAgents ==
    /\ cfg = DeployedConfig
    /\ t_msgs = <<>>
    /\ t_force = FALSE
    /\ t_ret = None
    /\ wp_list = <<>>
    /\ wp_calls = 0
    /\ db_summaries = {}
    /\ db_profiles = {}
    /\ seq = [summary |-> 0, profile |-> 0]
    /\ now = 0
    /\ tx = IdleTx
    /\ ret = RetNone
    /\ unit = EmptyUnit
    /\ op = [kind |-> "none", calls |-> 0]
    /\ conc = NoWorkers

NextAgents ==
    \/ \E user_id \in Users, inferred \in InferredPreferences :
            ProfileProcess(user_id, inferred)
    \/ \E user_id \in Users, delta \in PreferenceDeltas :
            UpdatePreferencesCall(user_id, delta)
    \/ \E session_id \in Sessions, user_id \in Users, obj \in AgentObjects :
            ConsolidateCall(session_id, user_id, obj)
    \/ \E user_id \in Users, days \in LookbackDays, llm \in RetrievalOutcomes :
            Retrieve(user_id, days, llm)
    \/ Tick

SpecAgents == InitAgents /\ [][NextAgents]_vars

(***************************************************************************)
(* Consolidations of summaries with unusual content: a key point that is   *)
(* empty or only whitespace, a weak point with an empty concept, with a    *)
(* confusion_score outside 0..100 or without one.  SessionSummaryCreate    *)
(* takes key_points as list[str] and weak_points as list[dict[str, Any]],  *)
(* so all of them pass its validation.  unit keeps the session as it was   *)
(* when the with block ended: its loaded profile object and its rows.      *)
(***************************************************************************)
KPBlank == <<>>

ObjBlank ==
    [core_topic |-> "ct4",
     key_points |-> <<KPBlank, KP1, KP1>>,
     resolved_questions |-> <<>>,
     unresolved_questions |-> <<"q2">>,
     user_preferences |-> <<>>,
     weak_points |-> <<[concept |-> "", confusion_score |-> 40]>>,
     subject |-> None,
     topic |-> None,
     difficulty |-> None]

ObjScores ==
    [core_topic |-> "ct5",
     key_points |-> <<KP2>>,
     resolved_questions |-> <<>>,
     unresolved_questions |-> <<>>,
     user_preferences |-> <<>>,
     weak_points |-> <<[concept |-> "c1", confusion_score |-> 150],
                       [concept |-> "c2", confusion_score |-> -5],
                       [concept |-> "c3"]>>,
     subject |-> Some("math"),
     topic |-> None,
     difficulty |-> None]

EdgeObjects == {ObjFull1, ObjFull2, ObjBlank, ObjScores}

\* a conversation that differs from Conv(2) in length and in its last turns
ConvOther ==
    <<[role |-> "user", content |-> "abc"], [role |-> "user", content |-> ""],
      [role |-> "user", content |-> "abc"]>>

ForcedConversations == {Conv(2), ConvOther}

\* SummarizerAgent.process lines 76-114 of a forced call whose summarization
\* call answered with the object obj
ProcessForced(session_id, user_id, messages, obj) ==
    LET g == generate_summary(messages, [kind |-> "json_object", obj |-> obj], cfg)
        u == update_user_profile_steps(
                upsert_summary(OpenSession, session_id, user_id, g.summary, now),
                user_id, g.summary, now)
    IN  /\ op.calls < MaxProfileCalls
        /\ Persist(u)
        /\ unit' = u
        /\ op' = [kind |-> "process", calls |-> op.calls + 1, user_id |-> user_id,
                  session_id |-> session_id, summary |-> g.summary,
                  before |-> StoredProfile(user_id),
                  existing |-> get_session_summary(OpenSession, session_id)]
        /\ now' = now + 1
        /\ UNCHANGED <<cfg, t_msgs, t_force, t_ret, wp_list, wp_calls, tx, ret, conc>>

NextProfile ==
    \E session_id \in Sessions, user_id \in Users, messages \in ForcedConversations,
       obj \in EdgeObjects :
        ProcessForced(session_id, user_id, messages, obj)

SpecProfile == InitAgents /\ [][NextProfile]_vars

(***************************************************************************)
(* The extractor on its own: _generate_summary on any conversation of at   *)
(* most MaxExtractTurns messages, under any keep count, for every outcome  *)
(* of the summarization call.                                              *)
(***************************************************************************)
ExtractKeepChoices == {0, 1, 2, 5}

InitExtract ==
    /\ cfg \in [trigger_rounds : {3}, trigger_tokens : {4}, keep_recent : ExtractKeepChoices]
    /\ t_msgs \in SeqsUpTo(Messages, MaxExtractTurns)
    /\ t_force = FALSE
    /\ t_ret = None
    /\ wp_list = <<>>
    /\ wp_calls = 0
    /\ db_summaries = {}
    /\ db_profiles = {}
    /\ seq = [summary |-> 0, profile |-> 0]
    /\ now = 0
    /\ tx = IdleTx
    /\ ret = RetNone
    /\ unit = EmptyUnit
    /\ op = NoOp
    /\ conc = NoWorkers

\* one call of SummarizerAgent._generate_summary
ExtractCall(llm) ==
    /\ op.kind = "none"
    /\ op' = [kind |-> "extract", llm |-> llm, result |-> generate_summary(t_msgs, llm, cfg)]
    /\ UNCHANGED <<cfg, t_msgs, t_force, t_ret, wp_list, wp_calls,
                   db_summaries, db_profiles, seq, now, tx, ret, unit, conc>>

NextExtract == \E llm \in LLMOutcomes : ExtractCall(llm)

SpecExtract == InitExtract /\ [][NextExtract]_vars

(***************************************************************************)
(* The chat router: on WebSocketDisconnect the handler schedules           *)
(* trigger_summary(current_session_id, current_user_id) when a session is  *)
(* tracked and the user is not "default_user".  t_msgs are the messages    *)
(* the session manager holds for the session, cfg the configuration of the *)
(* summarizer.  The hook is modelled from the disconnect to the end of the *)
(* background task.                                                        *)
(***************************************************************************)
DefaultUser == "default_user"
HookUsers == {DefaultUser, "u1"}
HookMinMessages == 6

\* what the disconnect leads to: whether the task is created, whether it
\* reaches summarize_session, whether process gets past its trigger check
trigger_summary(tracked, uid, session_found, messages, c) ==
    LET scheduled == tracked /\ uid # DefaultUser
        summarized ==
            /\ scheduled
            /\ session_found
            /\ messages # <<>>
            /\ uid # DefaultUser
            /\ Len(messages) >= HookMinMessages
    IN  [scheduled |-> scheduled,
         summarized |-> summarized,
         triggered |-> summarized /\ should_trigger_summary(messages, FALSE, c)]

InitHook ==
    /\ cfg \in Configs
    /\ t_msgs \in SeqsUpTo(Messages, MaxTurns)
    /\ t_force = FALSE
    /\ t_ret = None
    /\ wp_list = <<>>
    /\ wp_calls = 0
    /\ db_summaries = {}
    /\ db_profiles = {}
    /\ seq = [summary |-> 0, profile |-> 0]
    /\ now = 0
    /\ tx = IdleTx
    /\ ret = RetNone
    /\ unit = EmptyUnit
    /\ op = NoOp
    /\ conc = NoWorkers

\* the WebSocketDisconnect handler and the task it creates
Disconnect(tracked, uid, session_found, llm) ==
    LET h == trigger_summary(tracked, uid, session_found, t_msgs, cfg)
        g == generate_summary(t_msgs, llm, cfg)
        db == IF h.triggered /\ g.ok
              THEN consolidate([summaries |-> db_summaries, profiles |-> db_profiles,
                                seq |-> seq], "s1", uid, g.summary, now)
              ELSE [summaries |-> db_summaries, profiles |-> db_profiles, seq |-> seq]
    IN  /\ op.kind = "none"
        /\ op' = [kind |-> "disconnect", tracked |-> tracked, user_id |-> uid,
                  session_found |-> session_found, llm |-> llm.kind,
                  scheduled |-> h.scheduled, summarized |-> h.summarized,
                  triggered |-> h.triggered,
                  failed |-> h.triggered /\ ~g.ok,
                  propagated |-> FALSE]
        /\ db_summaries' = db.summaries
        /\ db_profiles' = db.profiles
        /\ seq' = db.seq
        /\ UNCHANGED <<cfg, t_msgs, t_force, t_ret, wp_list, wp_calls, now, tx, ret, unit, conc>>

NextHook ==
    \E tracked \in BOOLEAN, uid \in HookUsers, session_found \in BOOLEAN, llm \in LLMOutcomes :
        Disconnect(tracked, uid, session_found, llm)

SpecHook == InitHook /\ [][NextHook]_vars

(***************************************************************************)
(* Claims                                                                  *)
(***************************************************************************)

\* C1 (as stated): the policy returns true iff force is set, or the number of
\* turns is >= 2 * trigger_rounds, or the content lengths sum to at least
\* 2 * trigger_tokens (their sum divided by 2 is >= trigger_tokens); and with
\* trigger_rounds = 3 and force unset EVERY 5-turn conversation does not
\* trigger, every 6-turn conversation triggers, and force always triggers.
C1_AsStated ==
    t_ret # None =>
        /\ t_ret[1] = (\/ t_force
                       \/ Len(t_msgs) >= 2 * cfg.trigger_rounds
                       \/ total_chars(t_msgs) >= 2 * cfg.trigger_tokens)
        /\ (cfg.trigger_rounds = 3 /\ ~t_force /\ Len(t_msgs) = 5) => t_ret[1] = FALSE
        /\ (cfg.trigger_rounds = 3 /\ Len(t_msgs) = 6) => t_ret[1] = TRUE
        /\ t_force => t_ret[1] = TRUE

\* C1 (amended): the same, where the 5-turn conversation that does not trigger
\* is one whose content lengths sum to less than 2 * trigger_tokens.
C1_TriggerPolicy ==
    t_ret # None =>
        /\ t_ret[1] = (\/ t_force
                       \/ Len(t_msgs) >= 2 * cfg.trigger_rounds
                       \/ total_chars(t_msgs) >= 2 * cfg.trigger_tokens)
        /\ (/\ cfg.trigger_rounds = 3 /\ ~t_force /\ Len(t_msgs) = 5
            /\ total_chars(t_msgs) < 2 * cfg.trigger_tokens) => t_ret[1] = FALSE
        /\ (cfg.trigger_rounds = 3 /\ Len(t_msgs) = 6) => t_ret[1] = TRUE
        /\ t_force => t_ret[1] = TRUE

\* C1 witness: a 6-turn conversation of little text triggered by its length alone
C1_Witness ==
    /\ t_ret = Some(TRUE)
    /\ ~t_force
    /\ cfg.trigger_rounds = 3
    /\ Len(t_msgs) = 6
    /\ total_chars(t_msgs) < 2 * cfg.trigger_tokens

\* C2: the summary upsert and the profile update of one consolidation are
\* atomic: while the unit of work runs nothing of it is persisted; when it
\* commits, the summary row and every profile change made by the event are
\* persisted; when it fails, the failure reaches the caller and the persisted
\* summaries and profiles are what they were.
C2_Atomic ==
    [][tx.pc \in TxSteps =>
        IF tx'.pc \in TxSteps
        THEN db_summaries' = db_summaries /\ db_profiles' = db_profiles
        ELSE IF ret'.status = "ok"
        THEN /\ \E r \in db_summaries' :
                    /\ r.session_id = tx.session_id
                    /\ Some(r.id) = tx.summary_id
                    /\ r.core_topic = tx.summary.core_topic
             /\ HasProfile(db_profiles', tx.user_id)
             /\ ProfileRow(db_profiles', tx.user_id) = tx.u.mem[1]
        ELSE /\ ret'.status = "raised"
             /\ db_summaries' = db_summaries
             /\ db_profiles' = db_profiles]_vars

\* C3: _generate_summary never propagates a failure to its caller, whatever
\* the language-model call does.
C3_NeverPropagates == ret.raised_in # "_generate_summary"

\* C4: a response that is valid JSON of another shape is treated as a failure:
\* unless the persistence engine fails, the consolidation completes and the
\* persisted summary of the session is the default summary, whose core_topic
\* is not empty.
C4_OtherShapeDegrades ==
    (/\ tx.pc = "idle"
     /\ ret.llm \in {"json_other", "json_other_shape"}
     /\ ret.status \in {"ok", "raised"}
     /\ ret.error # "OperationalError") =>
        /\ ret.status = "ok"
        /\ \E r \in db_summaries :
              /\ r.session_id = ret.session_id
              /\ r.core_topic # ""
              /\ r.core_topic = DefaultTopic

C6_ProfilePersisted ==
    [][(/\ tx.pc = "commit" /\ tx'.pc = "idle" /\ ret'.status = "ok"
        /\ ~HasProfile(db_profiles, tx.user_id)) =>
        LET d == tx.summary
            kps == Get(d, "key_points", <<>>)
            wps == Get(d, "weak_points", <<>>)
            prefs == Get(d, "user_preferences", <<>>)
        IN  /\ HasProfile(db_profiles', tx.user_id)
            /\ LET p == ProfileRow(db_profiles', tx.user_id)
               IN  /\ p.statistics.total_sessions = 1
                   /\ \A i \in DOMAIN kps : Concept(kps[i]) \in DOMAIN p.knowledge_graph
                   /\ \A i \in DOMAIN wps :
                         \E j \in DOMAIN p.weak_points :
                            p.weak_points[j].concept = wps[i].concept
                   /\ \A i, j \in DOMAIN p.weak_points :
                         i < j => Score(p.weak_points[i]) >= Score(p.weak_points[j])
                   /\ \A k \in DOMAIN prefs : p.preferences[k] = prefs[k]]_vars

\* C7: after any update_weak_points batch the list is sorted descending by
\* confusion_score and no two entries carry the same concept.
C7_SortedUnique ==
    \A i, j \in DOMAIN wp_list :
        i < j => /\ Score(wp_list[i]) >= Score(wp_list[j])
                 /\ wp_list[i].concept # wp_list[j].concept

\* C8: merging observation a and then b gives the same list (entries, field
\* values, order) as merging b and then a, from every list and for every a, b.
C8_Commutative ==
    \A a, b \in Observations :
        update_weak_points_list(update_weak_points_list(wp_list, <<a>>, now), <<b>>, now)
          = update_weak_points_list(update_weak_points_list(wp_list, <<b>>, now), <<a>>, now)

\* C9: merging an observation twice, in two successive merges or twice within
\* one batch, gives the same list as merging it once.
C9_Idempotent ==
    \A o \in Observations :
        LET once == update_weak_points_list(wp_list, <<o>>, now)
        IN  /\ update_weak_points_list(once, <<o>>, now) = once
            /\ update_weak_points_list(wp_list, <<o, o>>, now) = once

\* C10: for an observation of a tracked concept the stored confusion_score
\* becomes the larger of the two scores, and last_confused becomes the
\* observation's exactly when its score is >= the stored one and is kept
\* otherwise; an observation of an untracked concept is appended.
C10_MaxAndLastConfused ==
    \A o \in Observations :
        LET existing == ExistingIndex(wp_list)
            merged == MergeLoop(wp_list, existing, <<o>>, now)
        IN  IF o.concept \in DOMAIN existing
            THEN LET i == existing[o.concept]
                 IN  /\ Len(merged) = Len(wp_list)
                     /\ merged[i].confusion_score
                            = Max(wp_list[i].confusion_score, o.confusion_score)
                     /\ merged[i].last_confused
                            = IF o.confusion_score >= wp_list[i].confusion_score
                              THEN o.last_confused
                              ELSE wp_list[i].last_confused
            ELSE merged = Append(wp_list, o)

\* C11: two consolidations of one user that interleave without a lock and
\* both commit converge: the persisted weak_points hold every weak point of
\* both summaries (with a score not below the observed one) and the persisted
\* knowledge_graph holds, for every concept of their key points, an
\* interaction_count and a mastery_level raised once per key point of either.
C11_Converge ==
    (\A p \in Workers : conc[p].pc = "done") =>
        LET row == ProfileRow(db_profiles, "u1")
            kg0 == IF HasProfile(op.profiles, "u1")
                   THEN ProfileRow(op.profiles, "u1").knowledge_graph ELSE <<>>
            seen(c) == Cardinality({<<p, i>> \in Workers \X (1..MaxTurns) :
                          /\ i \in DOMAIN conc[p].summary.key_points
                          /\ Concept(conc[p].summary.key_points[i]) = c})
            concepts == {Concept(conc[p].summary.key_points[i]) :
                            <<p, i>> \in {<<q, j>> \in Workers \X (1..MaxTurns) :
                                            j \in DOMAIN conc[q].summary.key_points}}
        IN  /\ \A p \in Workers : \A i \in DOMAIN conc[p].summary.weak_points :
                  \E j \in DOMAIN row.weak_points :
                      /\ row.weak_points[j].concept = conc[p].summary.weak_points[i].concept
                      /\ Score(row.weak_points[j]) >= Score(conc[p].summary.weak_points[i])
            /\ \A c \in concepts :
                  /\ c \in DOMAIN row.knowledge_graph
                  /\ row.knowledge_graph[c].interaction_count
                        = Get(kg0, c, [interaction_count |-> 0]).interaction_count + seen(c)
                  /\ row.knowledge_graph[c].mastery_level
                        = Min(10, Get(kg0, c, [mastery_level |-> 0]).mastery_level + seen(c))

\* C12: two concurrent consolidations of one session_id that had no summary
\* end with exactly one summary row of that session_id, neither fails on a
\* duplicate create, and the row holds the content of one of the two summaries.
C12_Serialized ==
    (/\ \A p \in Workers : conc[p].pc \in {"done", "failed"}
     /\ conc[1].session_id = conc[2].session_id
     /\ \A r \in op.summaries : r.session_id # conc[1].session_id) =>
        LET rows == {r \in db_summaries : r.session_id = conc[1].session_id}
        IN  /\ \A p \in Workers : conc[p].raised_in # "create_session_summary"
            /\ Cardinality(rows) = 1
            /\ \A r \in rows : \E p \in Workers :
                  /\ r.core_topic = conc[p].summary.core_topic
                  /\ r.key_points = conc[p].summary.key_points
                  /\ r.resolved_questions = conc[p].summary.resolved_questions
                  /\ r.unresolved_questions = conc[p].summary.unresolved_questions
                  /\ r.weak_points = conc[p].summary.weak_points

\* C13: when two concurrent consolidations of a user who has a profile both
\* commit, total_sessions and active_days have each grown by 2 and
\* avg_session_length is what the two running-average updates give one after
\* the other.
C13_StatisticsSerialized ==
    (/\ \A p \in Workers : conc[p].pc = "done"
     /\ HasProfile(op.profiles, "u1")) =>
        LET st0 == ProfileRow(op.profiles, "u1").statistics
            st == ProfileRow(db_profiles, "u1").statistics
            n == st0.total_sessions
            avg(a, k, p) == IF k = 0 THEN 100 * conc[p].summary.message_count
                            ELSE RoundDiv(a * k + 100 * conc[p].summary.message_count, k + 1)
        IN  /\ st.total_sessions = n + 2
            /\ st.active_days = st0.active_days + 2
            /\ st.avg_session_length
                  \in {avg(avg(st0.avg_session_length, n, 1), n + 1, 2),
                       avg(avg(st0.avg_session_length, n, 2), n + 1, 1)}

\* C14: after every update_knowledge_graph call, whatever its deltas, every
\* entry has 0 <= mastery_level <= 1 (10 tenths) and 0 <= confusion_score <=
\* 100, and the entry of the call holds the old value plus the delta where
\* that lies in the range and the nearer bound where it does not.
C14_Clamped ==
    LET kg == LoadedProfile(unit).knowledge_graph
    IN  /\ \A c \in DOMAIN kg :
              /\ 0 <= kg[c].mastery_level /\ kg[c].mastery_level <= 10
              /\ 0 <= kg[c].confusion_score /\ kg[c].confusion_score <= 100
        /\ op.calls > 0 =>
              LET old == Get(op.old, op.concept, [mastery_level |-> 0, confusion_score |-> 0])
                  m == old.mastery_level
                         + (IF op.mastery_delta = None THEN 0 ELSE op.mastery_delta[1])
                  c == old.confusion_score
                         + (IF op.confusion_delta = None THEN 0 ELSE op.confusion_delta[1])
              IN  /\ kg[op.concept].mastery_level
                        = IF m > 10 THEN 10 ELSE IF m < 0 THEN 0 ELSE m
                  /\ kg[op.concept].confusion_score
                        = IF c > 100 THEN 100 ELSE IF c < 0 THEN 0 ELSE c

\* C14 witness: a call on an entry inside the ranges whose deltas lead far
\* below 0 and far above 100, after which the entry sits on the bounds
C14_Witness ==
    /\ op.calls > 1
    /\ op.mastery_delta = Some(-20)
    /\ op.confusion_delta = Some(150)
    /\ op.concept \in DOMAIN op.old
    /\ op.old[op.concept].mastery_level = 4
    /\ op.old[op.concept].confusion_score = 60
    /\ unit.mem[1].knowledge_graph[op.concept].mastery_level = 0
    /\ unit.mem[1].knowledge_graph[op.concept].confusion_score = 100

\* C15 (as stated): whenever a session length is supplied the new average is
\* exactly (old_avg * old_count + new_value) / (old_count + 1), old_count being
\* total_sessions before the call; 10, 4, 20 give 12; 10, 1, 20 give 15; with
\* old_count = 0 the new average is new_value.
C15_AsStated ==
    (op.calls > 0 /\ op.session_length # None) =>
        LET new_avg == unit.mem[1].statistics.avg_session_length
            old_avg == op.old.avg_session_length
            old_count == op.old.total_sessions
            new_value == 100 * op.session_length[1]
        IN  /\ new_avg * (old_count + 1) = old_avg * old_count + new_value
            /\ (old_avg = 1000 /\ old_count = 4 /\ new_value = 2000) => new_avg = 1200
            /\ (old_avg = 1000 /\ old_count = 1 /\ new_value = 2000) => new_avg = 1500
            /\ old_count = 0 => new_avg = new_value

\* C15 (amended): the new average is that quotient rounded to two decimals (it
\* differs from the quotient by at most half a hundredth); the three examples
\* hold as stated.
C15_RunningAverage ==
    (op.calls > 0 /\ op.session_length # None) =>
        LET new_avg == unit.mem[1].statistics.avg_session_length
            old_avg == op.old.avg_session_length
            old_count == op.old.total_sessions
            new_value == 100 * op.session_length[1]
            diff == new_avg * (old_count + 1) - (old_avg * old_count + new_value)
        IN  /\ 2 * diff <= old_count + 1
            /\ 2 * diff >= 0 - (old_count + 1)
            /\ (old_avg = 1000 /\ old_count = 4 /\ new_value = 2000) => new_avg = 1200
            /\ (old_avg = 1000 /\ old_count = 1 /\ new_value = 2000) => new_avg = 1500
            /\ old_count = 0 => new_avg = new_value

\* C15 witness: four sessions of average 10 followed by one of length 20
C15_Witness ==
    /\ op.calls > 0
    /\ op.session_length = Some(20)
    /\ op.old.avg_session_length = 1000
    /\ op.old.total_sessions = 4
    /\ unit.mem[1].statistics.avg_session_length = 1200

\* C16: a committed consolidation raises the user's persisted total_sessions
\* and active_days by exactly 1, raises total_questions by exactly 1 when the
\* summary has a resolved or an unresolved question and leaves it otherwise,
\* and sets last_active_date to the current time.
C16_StatisticsStep ==
    [][(tx.pc = "commit" /\ tx'.pc = "idle" /\ ret'.status = "ok") =>
        LET old == IF HasProfile(db_profiles, tx.user_id)
                   THEN ProfileRow(db_profiles, tx.user_id).statistics
                   ELSE DefaultStatistics
            new == ProfileRow(db_profiles', tx.user_id).statistics
            questions == Len(Get(tx.summary, "resolved_questions", <<>>))
                           + Len(Get(tx.summary, "unresolved_questions", <<>>))
        IN  /\ new.total_sessions = old.total_sessions + 1
            /\ new.active_days = old.active_days + 1
            /\ new.total_questions
                  = IF questions > 0 THEN old.total_questions + 1 ELSE old.total_questions
            /\ new.last_active_date = Some(now)]_vars

\* C16 witness: a user with two committed consolidations of which one had a
\* question
C16_Witness ==
    /\ tx.pc = "idle"
    /\ ret.status = "ok"
    /\ \E r \in db_profiles :
          /\ r.user_id = ret.user_id
          /\ r.statistics.total_sessions = 2
          /\ r.statistics.active_days = 2
          /\ r.statistics.total_questions = 1
          /\ r.statistics.last_active_date = Some(now)


\* the preference map of the committed row of a user
StoredPreferences(user_id) == ProfileRow(db_profiles, user_id).preferences

\* ProfileAgent.process let the inferred preferences through its gate
PassedGate(inferred) ==
    /\ inferred.kind = "dict"
    /\ Get(inferred.value, "confidence", 0) > 5

\* C17: after ProfileAgent.process on an existing profile, the stored
\* preferences are unchanged when the inferred confidence is not above 0.5
\* (or is missing, or the inference failed), and hold the inferred value
\* under every inferred key when it is above 0.5.
C17_ConfidenceGate ==
    (op.kind = "profile_process" /\ op.before # None) =>
        IF PassedGate(op.inferred)
        THEN \A k \in DOMAIN op.inferred.value \ {"confidence"} :
                /\ Has(StoredPreferences(op.user_id), k)
                /\ StoredPreferences(op.user_id)[k] = op.inferred.value[k]
        ELSE StoredPreferences(op.user_id) = op.before[1].preferences

\* C18: after update_profile_preferences(user, delta) every key of delta is
\* stored with delta's value, every other preference key keeps its value,
\* and statistics, knowledge_graph, interests and weak_points are unchanged.
C18_LastWriteWins ==
    (op.kind = "update_preferences" /\ op.before # None) =>
        LET old == op.before[1]
            new == ProfileRow(db_profiles, op.user_id)
        IN  /\ \A k \in DOMAIN op.delta :
                    Has(new.preferences, k) /\ new.preferences[k] = op.delta[k]
            /\ \A k \in DOMAIN old.preferences \ DOMAIN op.delta :
                    Has(new.preferences, k) /\ new.preferences[k] = old.preferences[k]
            /\ new.statistics = old.statistics
            /\ new.knowledge_graph = old.knowledge_graph
            /\ new.interests = old.interests
            /\ new.weak_points = old.weak_points


\* at the retrieval no summary of its user was created inside its window
NoSummaryInWindow ==
    ~\E r \in op.summaries : r.user_id = op.user_id /\ r.created_at >= op.clock - op.days

\* the lines of the profile-only context of a profile dict
ProfileOnlyLines(profile) ==
    LET p == Get(profile, "preferences", <<>>)
        w == Get(profile, "weak_points", <<>>)
    IN  << "- style: " \o StyleMap(Get(p, "learning_style", "textual")),
           "- difficulty: " \o DifficultyMap(Get(p, "difficulty_preference", "intermediate")) >>
        \o (IF Get(p, "include_code", FALSE) = TRUE THEN << "- likes code examples" >> ELSE <<>>)
        \o (IF Get(p, "include_math", FALSE) = TRUE THEN << "- may include formulas" >> ELSE <<>>)
        \o (IF Len(w) > 0
            THEN << "- weak points: "
                      \o JoinWith([i \in 1..Min(3, Len(w)) |->
                            w[i].concept \o "(" \o ToString(w[i].confusion_score) \o ")"], ", ") >>
            ELSE <<>>)

\* the first three weak points are three of highest confusion
FirstThreeHighest(w) ==
    \A i \in 1..Min(3, Len(w)) : \A j \in (i + 1)..Len(w) :
        w[i].confusion_score >= w[j].confusion_score

\* C19: a retrieval for a user without any summary in the lookback window
\* returns normally without a language-model call, with an empty list of
\* relevant memories and with the context made of the profile alone: style,
\* difficulty, the code and formula flags and at most the first three weak
\* points, which are three of highest confusion.
C19_NoSummariesBasicContext ==
    (op.kind = "retrieve" /\ NoSummaryInWindow) =>
        /\ op.status = "ok"
        /\ op.llm_calls = 0
        /\ op.source_memories = <<>>
        /\ op.user_profile = (IF op.before # None THEN op.before[1] ELSE <<>>)
        /\ op.context = "## profile\n" \o JoinWith(ProfileOnlyLines(op.user_profile), "\n")
        /\ FirstThreeHighest(op.weak_points)

\* C19 witness: a retrieval, answered without a language-model call, for a
\* user whose profile exists and whose only summaries are older than the
\* window, while the model was set to answer with an object.
C19_Witness ==
    /\ op.kind = "retrieve"
    /\ NoSummaryInWindow
    /\ \E r \in op.summaries : r.user_id = op.user_id /\ r.created_at < op.clock - op.days
    /\ op.before # None
    /\ op.llm.kind = "json_object"
    /\ op.llm_calls = 0
    /\ op.source_memories = <<>>


\* the retrieval call raised, answered with text that is no JSON, or with
\* JSON that is not an object holding suggested_context
UnusableAnswer(llm) ==
    \/ llm.kind \in {"raise", "text", "json_other"}
    \/ llm.kind = "json_object" /\ ~Has(llm.obj, "suggested_context")

\* C20: when summaries exist in the window and the retrieval call raises,
\* answers with non-JSON text or with JSON of another shape than an object
\* with suggested_context, RetrievalAgent.process returns normally with the
\* profile-only context and an empty list of relevant memories.
C20_NeverFailsCaller ==
    (op.kind = "retrieve" /\ ~NoSummaryInWindow /\ UnusableAnswer(op.llm)) =>
        /\ op.status = "ok"
        /\ op.context = "## profile\n" \o JoinWith(ProfileOnlyLines(op.user_profile), "\n")
        /\ op.source_memories = <<>>

\* C21: a retrieval for a user without a profile creates the profile with
\* the default values and returns that full default profile; after the call
\* a profile of the user exists.
C21_FetchOrCreate ==
    (op.kind = "retrieve" /\ op.status = "ok" /\ op.before = None) =>
        /\ Has(op.user_profile, "preferences")
        /\ op.user_profile.preferences = DefaultPreferences
        /\ op.user_profile.statistics = DefaultStatistics
        /\ HasProfile(db_profiles, op.user_id)

\* the weak_points lists and knowledge graphs of the program: those of the
\* persisted profiles and those of the profile object of the last session
AllWeakPoints ==
    {r.weak_points : r \in db_profiles}
    \cup (IF unit.mem # None THEN {unit.mem[1].weak_points} ELSE {})

AllKnowledgeGraphs ==
    {r.knowledge_graph : r \in db_profiles}
    \cup (IF unit.mem # None THEN {unit.mem[1].knowledge_graph} ELSE {})

\* C22: an observation whose concept is the empty string is never merged:
\* no knowledge_graph has the empty string as a key and no weak_points list
\* has an entry with an empty concept.
C22_NoEmptyConcept ==
    /\ \A kg \in AllKnowledgeGraphs : "" \notin DOMAIN kg
    /\ \A w \in AllWeakPoints : \A i \in DOMAIN w : w[i].concept # ""

\* the last k turns of a conversation, in order
LastTurns(messages, k) == SubSeq(messages, Len(messages) - k + 1, Len(messages))

\* C23: every summary the extractor returns, parsed or default, has
\* message_count equal to the number of input turns and recent_messages
\* equal to the last min(keep_recent, number of turns) turns in order, so
\* never more than keep_recent of them.
C23_RecentMessages ==
    (op.kind = "extract" /\ op.result.ok) =>
        /\ op.result.summary.message_count = Len(t_msgs)
        /\ op.result.summary.recent_messages
              = LastTurns(t_msgs, Min(cfg.keep_recent, Len(t_msgs)))
        /\ Len(op.result.summary.recent_messages) <= cfg.keep_recent

\* C24: every entry of every weak_points list carries a confusion_score
\* that is an integer from 0 to 100, whatever scores the summaries carry.
C24_ScoreInRange ==
    \A w \in AllWeakPoints : \A i \in DOMAIN w :
        /\ Has(w[i], "confusion_score")
        /\ w[i].confusion_score \in 0..100

\* the number of key points of a summary the concept is derived from
TimesDerived(summary, concept) ==
    Cardinality({i \in DOMAIN summary.key_points : Concept(summary.key_points[i]) = concept})

\* C25: after the first consolidation of a user, every concept derived from
\* k key points of the summary is in the user's knowledge graph with
\* interaction_count k, mastery_level min(1, 0.1 * k) (held in tenths),
\* confusion_score 0 and the summary's subject, topic and difficulty.
C25_KnowledgeGraph ==
    (op.kind = "process" /\ unit.err = "" /\ op.before = None) =>
        LET kg == ProfileRow(db_profiles, op.user_id).knowledge_graph
        IN  \A i \in DOMAIN op.summary.key_points :
                LET concept == Concept(op.summary.key_points[i])
                    k == TimesDerived(op.summary, concept)
                IN  /\ concept \in DOMAIN kg
                    /\ kg[concept].interaction_count = k
                    /\ kg[concept].mastery_level = Min(10, k)
                    /\ kg[concept].confusion_score = 0
                    /\ kg[concept].subject = op.summary.subject
                    /\ kg[concept].topic = op.summary.topic
                    /\ kg[concept].difficulty = op.summary.difficulty

\* C26: a retrieval makes exactly one language-model call whenever at least
\* one summary of the user lies in the lookback window, whatever the text of
\* the summaries, and none only when no summary was fetched.
C26_OneCallPerRetrieval ==
    op.kind = "retrieve" =>
        op.llm_calls = (IF NoSummaryInWindow THEN 0 ELSE 1)

\* C27: a SummarizerAgent.process call for which the trigger policy returns
\* false returns without a summary and without a summary_id, makes no
\* language-model call, opens no session and leaves every persisted summary
\* and profile as it was.  The call is the one of the session and user the
\* step records.
C27_SkipLeavesAll ==
    [][(tx.pc = "idle" /\ now' # now) =>
        LET started == tx'.pc # "idle"
            session_id == IF started THEN tx'.session_id ELSE ret'.session_id
            user_id == IF started THEN tx'.user_id ELSE ret'.user_id
        IN  \A messages \in Conversations, force \in BOOLEAN :
                ~should_trigger_summary(messages, force, cfg) =>
                    \A llm \in LLMOutcomes :
                        Process(session_id, user_id, messages, force, llm) =>
                            /\ ret'.status = "skipped"
                            /\ ret'.summary_id = None
                            /\ ret'.llm = ""
                            /\ tx' = IdleTx
                            /\ db_summaries' = db_summaries
                            /\ db_profiles' = db_profiles
                            /\ seq' = seq]_vars

\* C27 witness: a call was skipped while a summary and a profile of an
\* earlier consolidation were stored.
C27_Witness ==
    /\ ret.status = "skipped"
    /\ tx.pc = "idle"
    /\ \E r \in db_summaries : r.session_id = ret.session_id
    /\ \E r \in db_profiles : r.user_id = ret.user_id /\ r.statistics.total_sessions = 1

\* the fields of a summary record that only its creation sets
CreationFields ==
    {"id", "session_id", "user_id", "user_preferences", "subject", "topic", "difficulty",
     "recent_messages", "message_count", "token_count", "generated_at", "created_at"}

\* total_sessions of a profile, 0 for none
SessionsCounted(profile) ==
    IF profile = None THEN 0 ELSE profile[1].statistics.total_sessions

\* C28: a consolidation of a session_id that already has a record leaves the
\* record's session_id, user_id, user_preferences, subject, topic,
\* difficulty, recent_messages, message_count, token_count and quality
\* stamp as the first consolidation set them, whatever the new summary and
\* the consolidating user are, and still counts the session in the profile
\* of the user passed to the call.
C28_CreationFieldsKept ==
    (op.kind = "process" /\ op.existing # {} /\ unit.err = "") =>
        LET old == CHOOSE r \in op.existing : TRUE
            new == CHOOSE r \in db_summaries : r.session_id = op.session_id
        IN  /\ Cardinality({r \in db_summaries : r.session_id = op.session_id}) = 1
            /\ \A f \in CreationFields : new[f] = old[f]
            /\ SessionsCounted(StoredProfile(op.user_id)) = SessionsCounted(op.before) + 1

\* C28 witness: a record made for one user from one conversation was
\* consolidated again by the other user with another summary of another
\* conversation.
C28_Witness ==
    /\ op.kind = "process" /\ op.existing # {} /\ unit.err = ""
    /\ \E old \in op.existing :
          /\ old.user_id # op.user_id
          /\ old.core_topic # op.summary.core_topic
          /\ old.message_count # op.summary.message_count
          /\ old.recent_messages # op.summary.recent_messages
          /\ old.subject # op.summary.subject
          /\ old.user_preferences # op.summary.user_preferences
    /\ \E new \in db_summaries :
          new.session_id = op.session_id /\ new.core_topic = op.summary.core_topic

\* the concepts a weak_points list tracks
Tracked(list) == {list[i].concept : i \in DOMAIN list}

\* the scores a list stores for a concept
ScoresOf(list, concept) == {Score(list[i]) : i \in {j \in DOMAIN list : list[j].concept = concept}}

\* the lowest and the highest of a non-empty set of scores
Lowest(S) == CHOOSE x \in S : \A y \in S : x <= y
Highest(S) == CHOOSE x \in S : \A y \in S : x >= y

\* C29: a weak-point merge never removes a tracked concept, never lowers a
\* score stored for a concept and never shortens the list.
C29_WeakPointsGrow ==
    [][/\ Len(wp_list') >= Len(wp_list)
       /\ \A c \in Tracked(wp_list) :
            /\ c \in Tracked(wp_list')
            /\ Cardinality({i \in DOMAIN wp_list' : wp_list'[i].concept = c})
                 = Cardinality({i \in DOMAIN wp_list : wp_list[i].concept = c})
            /\ Lowest(ScoresOf(wp_list', c)) >= Lowest(ScoresOf(wp_list, c))
            /\ Highest(ScoresOf(wp_list', c)) >= Highest(ScoresOf(wp_list, c))]_vars

\* C29 witness: after two merges a tracked entry still has the subject of
\* the observation that created it and the score and timestamp of a later,
\* higher observation: its score was raised from 30 to 50.
C29_Witness ==
    /\ wp_calls >= 2
    /\ \E i \in DOMAIN wp_list :
          /\ wp_list[i].confusion_score = 50
          /\ wp_list[i].last_confused = Some(2)
          /\ wp_list[i].subject = None

\* C30: on a disconnect with a tracked session and a user other than
\* "default_user" the hook consolidates the session exactly when the
\* trigger policy, on the session's stored messages with force = False,
\* returns true; it never consolidates for "default_user" or for a session
\* without messages, and no failure of the hook is propagated.
C30_HookFollowsPolicy ==
    op.kind = "disconnect" =>
        /\ (op.tracked /\ op.user_id # DefaultUser /\ op.session_found) =>
              (op.triggered <=> should_trigger_summary(t_msgs, FALSE, cfg))
        /\ (op.user_id = DefaultUser \/ t_msgs = <<>>) =>
              ~op.triggered /\ db_summaries = {} /\ db_profiles = {}
        /\ ~op.propagated

====
